---------------------------- MODULE Spec2Model ----------------------------
(***************************************************************************)
(* A state-machine model of the Nostr status application in src/main.rs:   *)
(* the shared session state (NostrStatusAppInternal), the vault file       *)
(* config.json, the relay resolver connect_to_relays_with_nip65, the       *)
(* bounded subscribe / select! / unsubscribe collectors and the spawned    *)
(* login, register, publish, refetch, reconnect and logout tasks.          *)
(*                                                                         *)
(* Not modelled: should_repaint (a repaint request with no reader other    *)
(* than the frame loop), the egui styling, and current_tab.  The side      *)
(* panel that selects the tab is outside add_enabled_ui, so while          *)
(* is_logged_in holds every tab can be selected at any time, and while it  *)
(* does not hold the tab is always Home; a guard on the tab therefore      *)
(* never restricts which button can be clicked.                            *)
(***************************************************************************)
EXTENDS Integers, Sequences, FiniteSets, TLC

\* ------------------------------------------------------------------------
\* Values
\* ------------------------------------------------------------------------

\* Option<T>: None is the empty sequence, Some(v) the one-element sequence.
None == << >>
Some(v) == << v >>
IsSome(o) == o # None
Unwrap(o) == o[1]

\* Result<T, E>
Ok(v) == [ok |-> TRUE, v |-> v]
Err(e) == [ok |-> FALSE, e |-> e]

RECURSIVE SeqsUpTo(_, _)
\* All sequences over S of length at most n.
SeqsUpTo(S, n) ==
    IF n = 0 THEN { << >> }
    ELSE LET shorter == SeqsUpTo(S, n - 1)
         IN shorter \cup { Append(s, x) : s \in shorter, x \in S }

Range(s) == { s[i] : i \in 1..Len(s) }

\* ------------------------------------------------------------------------
\* Program constants
\* ------------------------------------------------------------------------

MAX_STATUS_LENGTH == 140
NONCE_LEN == 12
SECRET_KEY_LEN == 32
TAG_LEN == 16
NIP49_PREFIX == "#nip49:"

bootstrap_relays == << "wss://purplepag.es", "wss://directory.yabu.me" >>
fallback_relays ==
    << "wss://relay.damus.io", "wss://relay.nostr.wirednet.jp", "wss://yabu.me" >>

\* ------------------------------------------------------------------------
\* Bounds and input universes
\* ------------------------------------------------------------------------

\* Longest relay-list event (number of tags) the transport delivers.
MaxTags == 2
\* Most status events one timeline fetch collects before its deadline.
MaxStatuses == 1
\* Most subscriptions a client holds open at once.
MaxSubs == 2
\* Most logout shutdown tasks pending at once.
MaxPendingShutdowns == 1

Passphrases == { "p1", "p2" }
\* Texts that Keys::parse accepts (hex secret keys).
ValidSecretKeys == { "k1", "k2" }
\* What the user types into the secret-key field: one key, or nothing.
SecretKeyTexts == { "k1", "" }
\* What OsRng fills the salt and the nonce with.
Salts == { "s1" }
Nonces == { "n1" }
\* The same, where the vault is run with every key: two draws each.
VaultSalts == { "s1", "s2" }
VaultNonces == { "n1", "n2" }
\* Lengths (in chars) of the texts typed into the status field.
StatusLengths ==
    { 0, MAX_STATUS_LENGTH - 1, MAX_STATUS_LENGTH, MAX_STATUS_LENGTH + 1 }

\* Relay URLs a relay-list event can name.
Nip65Urls == { "wss://a", "wss://b" }
Policies == { "Write", "Read", "Unspecified" }

\* ------------------------------------------------------------------------
\* Keys
\* ------------------------------------------------------------------------

\* Keys::parse on a hex secret key.
Keys_parse(text) ==
    IF text \in ValidSecretKeys THEN Ok([secret_key |-> text])
    ELSE Err("KeyParse")

\* Keys::public_key: one public key per secret key.
public_key(keys) == << "pub", keys.secret_key >>

\* SecretKey::to_secret_bytes and hex::encode are inverse on key material.
to_secret_bytes(keys) == << "raw", keys.secret_key >>
hex_encode(bytes) == IF bytes[1] = "raw" THEN bytes[2] ELSE "nothex"

\* Public keys of other users of the network.
OtherPubKeys == { << "pub", "kx" >>, << "pub", "kz" >> }

\* ------------------------------------------------------------------------
\* Key cipher: PBKDF2 + ChaCha20-Poly1305, base64, NIP-49 text
\* ------------------------------------------------------------------------

\* pbkdf2_hmac::<Sha256>(passphrase, salt, 100_000): deterministic, and
\* distinct (passphrase, salt) pairs give distinct keys.
pbkdf2_hmac(passphrase, salt) == << "dk", passphrase, salt >>

\* ChaCha20Poly1305::encrypt: ciphertext with tag, bound to key and nonce.
cipher_encrypt(key, nonce, plaintext) ==
    [sealed |-> TRUE, key |-> key, nonce |-> nonce, plaintext |-> plaintext,
     len |-> SECRET_KEY_LEN + TAG_LEN]

\* A decrypt that does not verify the tag: under another key or nonce the
\* keystream gives other bytes.
cipher_decrypt_unauthenticated(key, nonce, ciphertext_and_tag) ==
    IF /\ ciphertext_and_tag.sealed
       /\ ciphertext_and_tag.key = key
       /\ ciphertext_and_tag.nonce = nonce
    THEN Ok(ciphertext_and_tag.plaintext)
    ELSE Ok(<< "raw", "other bytes" >>)

\* ChaCha20Poly1305::decrypt: the tag verifies only under the same key and
\* nonce and on an unmodified ciphertext.
cipher_decrypt(key, nonce, ciphertext_and_tag) ==
    IF /\ ciphertext_and_tag.sealed
       /\ ciphertext_and_tag.key = key
       /\ ciphertext_and_tag.nonce = nonce
    THEN Ok(ciphertext_and_tag.plaintext)
    ELSE Err("aead")

\* A byte string is the ciphertext-with-tag part followed by the trailing
\* part; len is its length in bytes.
encoded_data(ciphertext_with_tag, nonce) ==
    [body |-> ciphertext_with_tag, tail |-> nonce,
     len |-> ciphertext_with_tag.len + NONCE_LEN]

\* general_purpose::STANDARD.encode / decode
base64_encode(bytes) == [b64 |-> TRUE, bytes |-> bytes]
base64_decode(text) == IF text.b64 THEN Ok(text.bytes) ELSE Err("Base64")

\* format!("#nip49:{}", b64): a text is its first seven characters and the
\* rest.
nip49_format(b64) == [head |-> NIP49_PREFIX, rest |-> b64]
starts_with(text, prefix) == text.head = prefix

\* serde_json::to_string_pretty / from_str on Config
to_string_pretty(config) == [json |-> TRUE, config |-> config]
from_str(text) == IF text.json THEN Ok(text.config) ELSE Err("Json")

\* The vault record a registration computes for (keys, passphrase) with the
\* salt and nonce drawn from OsRng.
vault_record(keys, passphrase, salt, nonce) ==
    LET derived_key_bytes == pbkdf2_hmac(passphrase, salt)
        ciphertext_with_tag ==
            cipher_encrypt(derived_key_bytes, nonce, to_secret_bytes(keys))
        nip49_encoded ==
            nip49_format(base64_encode(encoded_data(ciphertext_with_tag, nonce)))
    IN [encrypted_secret_key |-> nip49_encoded, salt |-> base64_encode(salt)]

\* The length check one byte off.
payload_too_short_off_by_one(decoded_bytes) == decoded_bytes.len < NONCE_LEN - 1

\* decoded_bytes.len() < 12
payload_too_short(decoded_bytes) == decoded_bytes.len < NONCE_LEN

\* A decrypt error mapped to itself instead of the one fixed message.
decrypt_error_verbatim(e) == e

\* .map_err(|_| "パスフレーズが正しくありません。"): whatever the cipher
\* reports, the caller gets the one message.
decrypt_error(e) == "DecryptionFailed"

\* The closure of the login task that loads and decrypts the keys, run on
\* the content of config.json (None when the file is missing): its result,
\* and the calls it made, in order.
load_keys_run(file, passphrase) ==
    LET c1 == << "read_to_string" >>
        c2 == Append(c1, "from_str")
        c3 == Append(c2, "decode_salt")
        c5 == c3 \o << "pbkdf2_hmac", "starts_with" >>
        c6 == Append(c5, "decode_payload")
        c8 == c6 \o << "split_at", "cipher_decrypt" >>
        c10 == c8 \o << "hex_encode", "Keys_parse" >>
    IN
    IF file = None THEN [result |-> Err("Io"), calls |-> c1]
    ELSE LET parsed == from_str(Unwrap(file)) IN
    IF ~parsed.ok THEN [result |-> parsed, calls |-> c2]
    ELSE LET config == parsed.v
             salt == base64_decode(config.salt) IN
    IF ~salt.ok THEN [result |-> salt, calls |-> c3]
    ELSE LET derived_key_bytes == pbkdf2_hmac(passphrase, salt.v)
             nip49_encoded == config.encrypted_secret_key IN
    IF ~starts_with(nip49_encoded, NIP49_PREFIX)
    THEN [result |-> Err("UnsupportedFormat"), calls |-> c5]
    ELSE LET decoded == base64_decode(nip49_encoded.rest) IN
    IF ~decoded.ok THEN [result |-> decoded, calls |-> c6]
    ELSE LET decoded_bytes == decoded.v IN
    IF payload_too_short(decoded_bytes)
    THEN [result |-> Err("MalformedPayload"), calls |-> c6]
    ELSE LET decrypted ==
                 cipher_decrypt(derived_key_bytes, decoded_bytes.tail,
                                decoded_bytes.body) IN
    IF ~decrypted.ok
    THEN [result |-> Err(decrypt_error(decrypted.e)), calls |-> c8]
    ELSE [result |-> Keys_parse(hex_encode(decrypted.v)), calls |-> c10]

load_keys(file, passphrase) == load_keys_run(file, passphrase).result

\* Contents config.json can have when the program starts: written by an
\* earlier registration, or damaged in one of the ways the loader checks.
GoodRecord == vault_record([secret_key |-> "k1"], "p1", "s1", "n1")
Garbage == [sealed |-> FALSE, len |-> SECRET_KEY_LEN + TAG_LEN]
InitialFiles ==
    { None,
      Some(to_string_pretty(GoodRecord)),
      Some([json |-> FALSE]),
      Some(to_string_pretty(
          [GoodRecord EXCEPT !.encrypted_secret_key.head = "#nip50:"])),
      Some(to_string_pretty(
          [GoodRecord EXCEPT !.encrypted_secret_key.rest = [b64 |-> FALSE]])),
      Some(to_string_pretty(
          [GoodRecord EXCEPT !.encrypted_secret_key.rest.bytes.len = NONCE_LEN - 1])),
      Some(to_string_pretty(
          [GoodRecord EXCEPT !.encrypted_secret_key.rest.bytes.body = Garbage])) }

\* More records an earlier run, or something else that writes the disk,
\* can have left: an empty payload, a payload of the nonce alone, a
\* ciphertext shorter than its tag, another nonce, another salt, and a
\* record with both a foreign prefix and a salt that is not base64.
VaultFiles ==
    InitialFiles \cup
    { Some(to_string_pretty(
          [GoodRecord EXCEPT !.encrypted_secret_key.rest.bytes.len = 0])),
      Some(to_string_pretty(
          [GoodRecord EXCEPT
               !.encrypted_secret_key.rest.bytes.body = [sealed |-> FALSE, len |-> 0],
               !.encrypted_secret_key.rest.bytes.len = NONCE_LEN])),
      Some(to_string_pretty(
          [GoodRecord EXCEPT
               !.encrypted_secret_key.rest.bytes.body =
                   [sealed |-> FALSE, len |-> TAG_LEN - 1],
               !.encrypted_secret_key.rest.bytes.len = NONCE_LEN + TAG_LEN - 1])),
      Some(to_string_pretty(
          [GoodRecord EXCEPT !.encrypted_secret_key.rest.bytes.tail = "n2"])),
      Some(to_string_pretty([GoodRecord EXCEPT !.salt = base64_encode("s2")])),
      Some(to_string_pretty(
          [GoodRecord EXCEPT !.encrypted_secret_key.head = "#nip50:",
                             !.salt = [b64 |-> FALSE]])) }

\* ------------------------------------------------------------------------
\* The pubsub client (nostr_sdk::Client) as the program uses it
\* ------------------------------------------------------------------------

\* Client::new / Client::with_opts: no relays, not connected.
Client_new == [relays |-> {}, connected |-> FALSE, shutdown |-> FALSE, subs |-> {}]

\* Client::add_relay, when it succeeds.
add_relay(client, url) == [client EXCEPT !.relays = @ \cup {url}]

\* remove_all_relays left out: the relays of the previous set stay.
remove_all_relays_skipped(client) == client

\* Client::remove_all_relays
remove_all_relays(client) == [client EXCEPT !.relays = {}]

\* Client::connect
connect(client) == [client EXCEPT !.connected = TRUE]

\* The count taken from the connection flag instead of the relay pool.
relays_len_of_connection(client) == IF client.connected THEN 1 ELSE 0

\* Client::relays().len()
relays_len(client) == Cardinality(client.relays)

\* The id Client::subscribe returns: one no open subscription has.
new_subscription_id(client) ==
    CHOOSE id \in 1..MaxSubs :
        /\ id \notin client.subs
        /\ \A other \in 1..MaxSubs : other \notin client.subs => id <= other

\* Client::subscribe
subscribe(client) == [client EXCEPT !.subs = @ \cup {new_subscription_id(client)}]

\* unsubscribe left out: the subscription stays open.
unsubscribe_skipped(client, id) == client

\* Client::unsubscribe
unsubscribe(client, id) == [client EXCEPT !.subs = @ \ {id}]

\* Client::shutdown, when it succeeds.
shutdown(client) == [client EXCEPT !.shutdown = TRUE, !.connected = FALSE]

\* The add loop reporting every url it tried, the failed adds included.
RECURSIVE add_relays_reports_failed(_, _, _, _)
add_relays_reports_failed(client, urls, failing, added) ==
    IF urls = << >> THEN << client, added >>
    ELSE IF Head(urls) \in failing
         THEN add_relays_reports_failed(client, Tail(urls), failing,
                                        Append(added, Head(urls)))
         ELSE add_relays_reports_failed(add_relay(client, Head(urls)), Tail(urls),
                                        failing, Append(added, Head(urls)))

\* add_relay in a loop over urls, where the adds of the urls in failing
\* return Err: the pair of the client and the list of urls added.
RECURSIVE add_relays(_, _, _, _)
add_relays(client, urls, failing, added) ==
    IF urls = << >> THEN << client, added >>
    ELSE IF Head(urls) \in failing
         THEN add_relays(client, Tail(urls), failing, added)
         ELSE add_relays(add_relay(client, Head(urls)), Tail(urls), failing,
                         Append(added, Head(urls)))

\* ------------------------------------------------------------------------
\* Events and notifications
\* ------------------------------------------------------------------------

RelayMetadata(url, policy) == [tag |-> "RelayMetadata", url |-> url, policy |-> policy]
PublicKeyTag(pk) == [tag |-> "PublicKey", public_key |-> pk]
Identifier(d) == [tag |-> "Identifier", d |-> d]
OtherTag == [tag |-> "Other"]

Event(kind, pubkey, tags) ==
    [type |-> "Event", kind |-> kind, pubkey |-> pubkey, tags |-> tags,
     content |-> "text"]
\* A RelayPoolNotification that is not an Event.
Message == [type |-> "Message"]

OwnPubKeys ==
    { public_key(Keys_parse(k).v) : k \in SecretKeyTexts \cap ValidSecretKeys }

RelayListTags ==
    SeqsUpTo({ RelayMetadata(u, p) : u \in Nip65Urls, p \in Policies }, MaxTags)
        \cup { << OtherTag, RelayMetadata("wss://a", "Write") >> }
ContactListTags ==
    { << >>, << PublicKeyTag(<< "pub", "kx" >>) >>,
      << OtherTag, PublicKeyTag(<< "pub", "kx" >>) >> }
StatusTags == { << >>, << Identifier("music") >> }

\* What the transport can hand to a notification receiver.  A relay is not
\* trusted to send only what was asked for.
Notifications ==
    { Event("RelayList", pk, tags) : pk \in OwnPubKeys, tags \in RelayListTags }
        \cup { Event("RelayList", << "pub", "kx" >>,
                     << RelayMetadata("wss://b", "Write") >>) }
        \cup { Event("ContactList", pk, tags) :
                   pk \in OwnPubKeys, tags \in ContactListTags }
        \cup { Event("ContactList", << "pub", "kx" >>,
                     << PublicKeyTag(<< "pub", "kz" >>) >>) }
        \cup { Event("Status", pk, tags) : pk \in OtherPubKeys, tags \in StatusTags }
        \cup { Message }

\* The relay-list collector's tag loop: (url, policy string) of every
\* RelayMetadata tag, in order.
RECURSIVE parse_relay_tags(_)
parse_relay_tags(tags) ==
    IF tags = << >> THEN << >>
    ELSE LET tag == Head(tags)
             rest == parse_relay_tags(Tail(tags))
         IN IF tag.tag = "RelayMetadata"
            THEN << [url |-> tag.url,
                     policy |-> CASE tag.policy = "Write" -> Some("write")
                                  [] tag.policy = "Read" -> Some("read")
                                  [] OTHER -> None] >> \o rest
            ELSE rest

\* The commit loop without its policy filter.
is_selected_any_policy(descriptor) == TRUE

\* The filter of the commit loop: the descriptors the resolver tries to add.
is_selected(descriptor) ==
    descriptor.policy = Some("write") \/ descriptor.policy = None

RECURSIVE selected_urls(_)
selected_urls(nip65_relays) ==
    IF nip65_relays = << >> THEN << >>
    ELSE IF is_selected(Head(nip65_relays))
         THEN << Head(nip65_relays).url >> \o selected_urls(Tail(nip65_relays))
         ELSE selected_urls(Tail(nip65_relays))

\* The contact-list collector's tag loop.
contact_pubkeys(tags) ==
    { tags[i].public_key : i \in { j \in 1..Len(tags) : tags[j].tag = "PublicKey" } }

\* The timeline collector's find_map(..).unwrap_or_else(|| "general").
RECURSIVE d_tag(_)
d_tag(tags) ==
    IF tags = << >> THEN "general"
    ELSE IF Head(tags).tag = "Identifier" THEN Head(tags).d
         ELSE d_tag(Tail(tags))

\* Display strings.
Text(s) == [text |-> s]
\* join("\n\n") of the formatted statuses.
format_statuses(collected_statuses) == [entries |-> collected_statuses]
\* log_message[pos..] where pos is the place of the connected-relays marker.
relays_section(log_message) == [connected |-> log_message.current_connected_relays]

\* ------------------------------------------------------------------------
\* State
\* ------------------------------------------------------------------------

VARIABLES
    \* NostrStatusAppInternal, behind the one Mutex
    is_logged_in, is_loading, my_keys, nostr_client, followed_pubkeys,
    followed_pubkeys_display, status_timeline_display, connected_relays_display,
    status_message_input, secret_key_input, passphrase_input,
    confirm_passphrase_input,
    \* content of config.json
    config_file,
    \* the spawned action task: which one, where it is, its local variables
    task, pc, loc,
    \* local variables of connect_to_relays_with_nip65 while it runs
    rs,
    \* the client shutdown tasks spawned by logout and not yet run: for each
    \* task slot, the client the task owns (None: the slot is free)
    shutdown_tasks,
    \* where the task spawned by NostrStatusApp::new is
    startup,
    \* who holds the Mutex around NostrStatusAppInternal
    lock

session ==
    << is_logged_in, my_keys, nostr_client, followed_pubkeys,
       followed_pubkeys_display, status_timeline_display, connected_relays_display >>
inputs ==
    << status_message_input, secret_key_input, passphrase_input,
       confirm_passphrase_input >>
vars ==
    << is_logged_in, is_loading, my_keys, nostr_client, followed_pubkeys,
       followed_pubkeys_display, status_timeline_display, connected_relays_display,
       status_message_input, secret_key_input, passphrase_input,
       confirm_passphrase_input, config_file, task, pc, loc, rs,
       shutdown_tasks, startup, lock >>

\* Local variables of a task before it sets them.
NoLocals ==
    [passphrase |-> "", confirm_passphrase |-> "", secret_key_input |-> "",
     status_message |-> 0, keys |-> None, client |-> None, log_message |-> None,
     sub |-> None, followed_pubkeys |-> {}, received_nip02 |-> FALSE,
     collected_statuses |-> << >>, final_timeline_display |-> Text(""),
     event |-> None, result |-> None, client_to_shutdown |-> None,
     calls |-> << >>, lost |-> FALSE]

\* Local variables of the resolver before it sets them.
NoResolver ==
    [discover_client |-> None, sub |-> None, nip65_relays |-> << >>,
     received_nip65_event |-> FALSE, timeout_logged |-> FALSE,
     failed_adds |-> {}, current_connected_relays |-> << >>,
     committed |-> FALSE, result |-> None, lost |-> FALSE]

\* The slots of the runtime that hold the shutdown tasks logout spawns.
ShutdownSlots == 1..MaxPendingShutdowns

\* NostrStatusApp::new, started with one of files as config.json.
InitWith(files) ==
    /\ is_logged_in = FALSE
    /\ is_loading = FALSE
    /\ my_keys = None
    /\ nostr_client = None
    /\ followed_pubkeys = {}
    /\ followed_pubkeys_display = Text("")
    /\ status_timeline_display = Text("")
    /\ connected_relays_display = Text("")
    /\ status_message_input = 0
    /\ secret_key_input = ""
    /\ passphrase_input = ""
    /\ confirm_passphrase_input = ""
    /\ config_file \in files
    /\ task = "none"
    /\ pc = "idle"
    /\ loc = NoLocals
    /\ rs = NoResolver
    /\ shutdown_tasks = [slot \in ShutdownSlots |-> None]
    /\ startup = "spawned"
    /\ lock = "free"

Init == InitWith(InitialFiles)

\* Path::new(CONFIG_FILE).exists()
config_exists == config_file # None

\* The client the running task works on: the login task owns a new client,
\* every other task holds a clone of the session's client (the same pool).
TaskClient == IF task = "login" THEN Unwrap(loc.client) ELSE Unwrap(nostr_client)

\* The step that leaves the task's client as client and its locals as locals.
SetTaskClient(client, locals) ==
    IF task = "login"
    THEN /\ loc' = [locals EXCEPT !.client = Some(client)]
         /\ UNCHANGED nostr_client
    ELSE /\ loc' = locals
         /\ nostr_client' = Some(client)

\* The lock taken one statement early, before the publish task's send.
wants_lock_before_send ==
    \/ pc \in { "l_commit", "l_cleanup", "l_finish", "rg_commit", "p_clear",
                "p_finish", "rf_commit", "rc_finish", "p_send" }
    \/ pc = "rg_run" /\ loc.passphrase # loc.confirm_passphrase
    \/ pc = "rf_start" /\ loc.followed_pubkeys = {}
    \/ pc = "r_return" /\ task = "reconnect" /\ Unwrap(rs.result).ok

\* Whether the next statement of the running task is
\* cloned_app_data_arc.lock().unwrap().
wants_lock ==
    \/ pc \in { "l_commit", "l_cleanup", "l_finish", "rg_commit", "p_clear",
                "p_finish", "rf_commit", "rc_finish" }
    \/ pc = "rg_run" /\ loc.passphrase # loc.confirm_passphrase
    \/ pc = "rf_start" /\ loc.followed_pubkeys = {}
    \/ pc = "r_return" /\ task = "reconnect" /\ Unwrap(rs.result).ok

\* The running task acquires the lock; it waits while another thread has it.
TaskLock ==
    /\ task # "none"
    /\ wants_lock
    /\ lock = "free"
    /\ lock' = "task"
    /\ UNCHANGED << session, is_loading, inputs, config_file, task, pc, loc, rs,
                    shutdown_tasks, startup >>

\* The task NostrStatusApp::new spawns: it takes the lock, looks whether
\* config.json exists, asks for a repaint and ends.
StartupLock ==
    /\ startup = "spawned"
    /\ lock = "free"
    /\ lock' = "startup"
    /\ startup' = "locked"
    /\ UNCHANGED << session, is_loading, inputs, config_file, task, pc, loc, rs,
                    shutdown_tasks >>

StartupCheck ==
    /\ startup = "locked"
    /\ lock = "startup"
    /\ lock' = "free"
    /\ startup' = "done"
    /\ UNCHANGED << session, is_loading, inputs, config_file, task, pc, loc, rs,
                    shutdown_tasks >>

\* ------------------------------------------------------------------------
\* The login / register form
\* ------------------------------------------------------------------------

\* The form is drawn inside add_enabled_ui(!is_loading), for !is_logged_in,
\* in a frame, which holds the lock from its first line to its last.
LoginFormEnabled == lock = "free" /\ ~is_loading /\ ~is_logged_in

EditSecretKey(text) ==
    /\ LoginFormEnabled
    /\ secret_key_input' = text
    /\ UNCHANGED << session, is_loading, status_message_input, passphrase_input,
                    confirm_passphrase_input, config_file, task, pc, loc, rs,
                    shutdown_tasks, startup, lock >>

EditPassphrase(text) ==
    /\ LoginFormEnabled
    /\ passphrase_input' = text
    /\ UNCHANGED << session, is_loading, status_message_input, secret_key_input,
                    confirm_passphrase_input, config_file, task, pc, loc, rs,
                    shutdown_tasks, startup, lock >>

EditConfirmPassphrase(text) ==
    /\ LoginFormEnabled
    /\ ~config_exists
    /\ confirm_passphrase_input' = text
    /\ UNCHANGED << session, is_loading, status_message_input, secret_key_input,
                    passphrase_input, config_file, task, pc, loc, rs,
                    shutdown_tasks, startup, lock >>

\* ------------------------------------------------------------------------
\* Login
\* ------------------------------------------------------------------------

\* The "Login with Passphrase" button.
ClickLogin ==
    /\ LoginFormEnabled
    /\ config_exists
    /\ ~is_loading
    /\ is_loading' = TRUE
    /\ task' = "login"
    /\ pc' = "l_keys"
    /\ loc' = [NoLocals EXCEPT !.passphrase = passphrase_input]
    /\ UNCHANGED << session, inputs, config_file, rs,
                    shutdown_tasks, startup, lock >>

\* 1. read config.json, decrypt the secret key, create the client.
LoginDecrypt ==
    /\ task = "login" /\ pc = "l_keys"
    /\ LET run == load_keys_run(config_file, loc.passphrase)
           keys == load_keys(config_file, loc.passphrase)
       IN IF keys.ok
          THEN /\ loc' = [loc EXCEPT !.keys = Some(keys.v),
                                     !.client = Some(Client_new),
                                     !.calls = run.calls]
               /\ pc' = "r_bootstrap"
          ELSE /\ loc' = [loc EXCEPT !.result = Some(keys), !.calls = run.calls]
               /\ pc' = "l_cleanup"
    /\ UNCHANGED << session, is_loading, inputs, config_file, task, rs,
                    shutdown_tasks, startup, lock >>

\* ------------------------------------------------------------------------
\* connect_to_relays_with_nip65(client, keys), called by login and reconnect
\* ------------------------------------------------------------------------

InResolver(at) == task \in { "login", "reconnect" } /\ pc = at

\* Bootstrap: the discovery client, its relays (each add may fail), connect.
ResolverBootstrap(failing) ==
    /\ InResolver("r_bootstrap")
    /\ LET built == add_relays(Client_new, bootstrap_relays, failing, << >>)
       IN rs' = [NoResolver EXCEPT !.discover_client = Some(connect(built[1]))]
    /\ pc' = "r_subscribe"
    /\ UNCHANGED << session, is_loading, inputs, config_file, task, loc,
                    shutdown_tasks, startup, lock >>

\* Query: subscribe to the identity's relay list.
ResolverSubscribe ==
    /\ InResolver("r_subscribe")
    /\ LET discover_client == Unwrap(rs.discover_client)
       IN rs' = [rs EXCEPT !.sub = Some(new_subscription_id(discover_client)),
                           !.discover_client = Some(subscribe(discover_client))]
    /\ pc' = "r_select"
    /\ UNCHANGED << session, is_loading, inputs, config_file, task, loc,
                    shutdown_tasks, startup, lock >>

\* select! polls the event branch, which opens the notification receiver.
ResolverOpenReceiver ==
    /\ InResolver("r_select")
    /\ pc' = "r_wait"
    /\ UNCHANGED << session, is_loading, inputs, config_file, task, loc, rs,
                    shutdown_tasks, startup, lock >>

\* select!: the 10 s sleep completes first.
ResolverTimeout ==
    /\ InResolver("r_wait")
    /\ rs' = [rs EXCEPT !.timeout_logged = TRUE]
    /\ pc' = "r_unsub"
    /\ UNCHANGED << session, is_loading, inputs, config_file, task, loc,
                    shutdown_tasks, startup, lock >>

\* Whether the relay-list loop accepts the notification.
relay_list_matches(notification, keys) ==
    /\ notification.type = "Event"
    /\ notification.kind = "RelayList"
    /\ notification.pubkey = public_key(keys)

\* The pool broadcasts a notification after subscribe returned and before
\* discover_client.notifications() has made the receiver of this lookup: a
\* broadcast receiver sees only what is sent after its creation, so the
\* notification never reaches the loop (lost: it was one the loop accepts).
ResolverDeliverBeforeReceiver(notification) ==
    /\ InResolver("r_select")
    /\ Unwrap(rs.discover_client).relays # {}
    /\ rs' = [rs EXCEPT !.lost = @ \/ relay_list_matches(notification, Unwrap(loc.keys))]
    /\ UNCHANGED << session, is_loading, inputs, config_file, task, pc, loc,
                    shutdown_tasks, startup, lock >>

\* The event branch still running after the select! has completed.
ResolverRecv_after_select(notification) ==
    /\ InResolver("r_wait") \/ InResolver("r_unsub")
    /\ Unwrap(rs.discover_client).relays # {}
    /\ IF notification.type = "Event" /\ notification.kind = "RelayList"
          /\ notification.pubkey = public_key(Unwrap(loc.keys))
       THEN /\ rs' = [rs EXCEPT !.nip65_relays = parse_relay_tags(notification.tags),
                                !.received_nip65_event = TRUE]
            /\ pc' = "r_unsub"
       ELSE UNCHANGED << rs, pc >>
    /\ UNCHANGED << session, is_loading, inputs, config_file, task, loc,
                    shutdown_tasks, startup, lock >>

\* select!: notifications.recv() returns Ok(notification).  Only a relay the
\* discovery client has can send one.
ResolverRecv(notification) ==
    /\ InResolver("r_wait")
    /\ Unwrap(rs.discover_client).relays # {}
    /\ IF relay_list_matches(notification, Unwrap(loc.keys))
       THEN /\ rs' = [rs EXCEPT !.nip65_relays = parse_relay_tags(notification.tags),
                                !.received_nip65_event = TRUE]
            /\ pc' = "r_unsub"
       ELSE UNCHANGED << rs, pc >>
    /\ UNCHANGED << session, is_loading, inputs, config_file, task, loc,
                    shutdown_tasks, startup, lock >>

\* select!: notifications.recv() returns Err (closed or lagged): the loop ends.
ResolverStreamClosed ==
    /\ InResolver("r_wait")
    /\ pc' = "r_unsub"
    /\ UNCHANGED << session, is_loading, inputs, config_file, task, loc, rs,
                    shutdown_tasks, startup, lock >>

\* discover_client.unsubscribe(timeout_filter_id)
ResolverUnsubscribe ==
    /\ InResolver("r_unsub")
    /\ rs' = [rs EXCEPT !.discover_client =
                  Some(unsubscribe(Unwrap(rs.discover_client), Unwrap(rs.sub)))]
    /\ pc' = "r_shutdown"
    /\ UNCHANGED << session, is_loading, inputs, config_file, task, loc,
                    shutdown_tasks, startup, lock >>

\* The resolver going on to the commit when the shutdown reports an error.
ResolverShutdown_ignores_error(ok) ==
    /\ InResolver("r_shutdown")
    /\ rs' = IF ok
             THEN [rs EXCEPT !.discover_client =
                       Some(shutdown(Unwrap(rs.discover_client)))]
             ELSE rs
    /\ pc' = "r_commit"
    /\ UNCHANGED << session, is_loading, inputs, config_file, task, loc,
                    shutdown_tasks, startup, lock >>

\* discover_client.shutdown().await?
ResolverShutdown(ok) ==
    /\ InResolver("r_shutdown")
    /\ IF ok
       THEN /\ rs' = [rs EXCEPT !.discover_client =
                          Some(shutdown(Unwrap(rs.discover_client)))]
            /\ pc' = "r_commit"
       ELSE /\ rs' = [rs EXCEPT !.result = Some(Err("Shutdown"))]
            /\ pc' = "r_return"
    /\ UNCHANGED << session, is_loading, inputs, config_file, task, loc,
                    shutdown_tasks, startup, lock >>

\* Decide: the urls the commit loop tries to add to the session client.
candidate_urls(received_nip65_event, nip65_relays) ==
    IF received_nip65_event /\ nip65_relays # << >>
    THEN selected_urls(nip65_relays)
    ELSE fallback_relays

\* Commit: remove_all_relays, the add loop (the adds of the urls in failing
\* return Err), connect, count, and the result of the call.
ResolverCommit(failing) ==
    /\ InResolver("r_commit")
    /\ LET urls == candidate_urls(rs.received_nip65_event, rs.nip65_relays)
           built == add_relays(remove_all_relays(TaskClient), urls, failing, << >>)
           client == connect(built[1])
           connected_relays_count == relays_len(client)
           log_message ==
               [timeout_logged |-> rs.timeout_logged,
                nip65_relays |-> rs.nip65_relays,
                failed_adds |-> Range(urls) \cap failing,
                connected_relays_count |-> connected_relays_count,
                current_connected_relays |-> built[2]]
       IN /\ rs' = [rs EXCEPT !.failed_adds = Range(urls) \cap failing,
                              !.current_connected_relays = built[2],
                              !.committed = TRUE,
                              !.result =
                                  IF connected_relays_count = 0
                                  THEN Some(Err("NoReachableRelays"))
                                  ELSE Some(Ok(log_message))]
          /\ SetTaskClient(client, loc)
    /\ pc' = "r_return"
    /\ UNCHANGED << is_logged_in, my_keys, followed_pubkeys, followed_pubkeys_display,
                    status_timeline_display, connected_relays_display, is_loading,
                    inputs, config_file, task, shutdown_tasks, startup, lock >>

\* The login task storing its client in the session state as soon as the
\* relays are resolved.
LoginResolverReturned_stores_client ==
    /\ task = "login" /\ pc = "r_return"
    /\ LET result == Unwrap(rs.result)
       IN IF result.ok
          THEN /\ loc' = [loc EXCEPT !.log_message = Some(result.v)]
               /\ pc' = "l_subscribe"
          ELSE /\ loc' = [loc EXCEPT !.result = Some(result)]
               /\ pc' = "l_cleanup"
    /\ nostr_client' = loc.client
    /\ rs' = NoResolver
    /\ UNCHANGED << is_logged_in, my_keys, followed_pubkeys, followed_pubkeys_display,
                    status_timeline_display, connected_relays_display, is_loading,
                    inputs, config_file, task, shutdown_tasks, startup, lock >>

\* The login task going on to the follow list whatever the resolver returned.
LoginResolverReturned_ignores_error ==
    /\ task = "login" /\ pc = "r_return"
    /\ LET result == Unwrap(rs.result)
       IN loc' = [loc EXCEPT !.log_message = IF result.ok THEN Some(result.v) ELSE None]
    /\ pc' = "l_subscribe"
    /\ rs' = NoResolver
    /\ UNCHANGED << session, is_loading, inputs, config_file, task,
                    shutdown_tasks, startup, lock >>

\* login: connect_to_relays_with_nip65(&client, &keys).await?
LoginResolverReturned ==
    /\ task = "login" /\ pc = "r_return"
    /\ LET result == Unwrap(rs.result)
       IN IF result.ok
          THEN /\ loc' = [loc EXCEPT !.log_message = Some(result.v)]
               /\ pc' = "l_subscribe"
          ELSE /\ loc' = [loc EXCEPT !.result = Some(result)]
               /\ pc' = "l_cleanup"
    /\ rs' = NoResolver
    /\ UNCHANGED << session, is_loading, inputs, config_file, task,
                    shutdown_tasks, startup, lock >>

\* 3. client.subscribe(nip02_filter)
LoginSubscribe ==
    /\ task = "login" /\ pc = "l_subscribe"
    /\ LET client == Unwrap(loc.client)
       IN loc' = [loc EXCEPT !.sub = Some(new_subscription_id(client)),
                             !.client = Some(subscribe(client)),
                             !.followed_pubkeys = {},
                             !.received_nip02 = FALSE]
    /\ pc' = "l_select"
    /\ UNCHANGED << session, is_loading, inputs, config_file, task, rs,
                    shutdown_tasks, startup, lock >>

\* select! polls the event branch, which opens the notification receiver.
LoginOpenReceiver ==
    /\ task = "login" /\ pc = "l_select"
    /\ pc' = "l_wait"
    /\ UNCHANGED << session, is_loading, inputs, config_file, task, loc, rs,
                    shutdown_tasks, startup, lock >>

\* select!: the 10 s sleep completes first.
LoginTimeout ==
    /\ task = "login" /\ pc = "l_wait"
    /\ pc' = "l_unsub"
    /\ UNCHANGED << session, is_loading, inputs, config_file, task, loc, rs,
                    shutdown_tasks, startup, lock >>

\* The contact-list loop without its test of the author.
contact_list_matches_any_author(notification, keys) ==
    /\ notification.type = "Event"
    /\ notification.kind = "ContactList"

\* Whether the contact-list loop accepts the notification.
contact_list_matches(notification, keys) ==
    /\ notification.type = "Event"
    /\ notification.kind = "ContactList"
    /\ notification.pubkey = public_key(keys)

\* select!: notifications.recv() returns Ok(notification).
LoginRecv(notification) ==
    /\ task = "login" /\ pc = "l_wait"
    /\ Unwrap(loc.client).relays # {}
    /\ IF contact_list_matches(notification, Unwrap(loc.keys))
       THEN /\ loc' = [loc EXCEPT
                           !.followed_pubkeys = @ \cup contact_pubkeys(notification.tags),
                           !.received_nip02 = TRUE]
            /\ pc' = "l_unsub"
       ELSE UNCHANGED << loc, pc >>
    /\ UNCHANGED << session, is_loading, inputs, config_file, task, rs,
                    shutdown_tasks, startup, lock >>

\* The same between client.subscribe(nip02_filter) and client.notifications().
LoginDeliverBeforeReceiver(notification) ==
    /\ task = "login" /\ pc = "l_select"
    /\ Unwrap(loc.client).relays # {}
    /\ loc' = [loc EXCEPT
                   !.lost = @ \/ contact_list_matches(notification, Unwrap(loc.keys))]
    /\ UNCHANGED << session, is_loading, inputs, config_file, task, pc, rs,
                    shutdown_tasks, startup, lock >>

LoginStreamClosed ==
    /\ task = "login" /\ pc = "l_wait"
    /\ pc' = "l_unsub"
    /\ UNCHANGED << session, is_loading, inputs, config_file, task, loc, rs,
                    shutdown_tasks, startup, lock >>

\* The login task without the check of received_nip02.
LoginUnsubscribe_unchecked ==
    /\ task = "login" /\ pc = "l_unsub"
    /\ LET client == unsubscribe(Unwrap(loc.client), Unwrap(loc.sub))
       IN IF loc.followed_pubkeys # {}
          THEN /\ loc' = [loc EXCEPT !.client = Some(client)]
               /\ pc' = "tl_subscribe"
          ELSE /\ loc' = [loc EXCEPT !.client = Some(client),
                              !.final_timeline_display = Text("No timeline available.")]
               /\ pc' = "l_commit"
    /\ UNCHANGED << session, is_loading, inputs, config_file, task, rs,
                    shutdown_tasks, startup, lock >>

\* client.unsubscribe(nip02_filter_id), then the check of received_nip02 and
\* the guard of the timeline fetch.
LoginUnsubscribe ==
    /\ task = "login" /\ pc = "l_unsub"
    /\ LET client == unsubscribe(Unwrap(loc.client), Unwrap(loc.sub))
       IN IF ~loc.received_nip02
          THEN /\ loc' = [loc EXCEPT !.client = Some(client),
                                     !.result = Some(Err("ContactListNotFound"))]
               /\ pc' = "l_cleanup"
          ELSE IF loc.followed_pubkeys # {}
          THEN /\ loc' = [loc EXCEPT !.client = Some(client)]
               /\ pc' = "tl_subscribe"
          ELSE /\ loc' = [loc EXCEPT !.client = Some(client),
                              !.final_timeline_display = Text("No timeline available.")]
               /\ pc' = "l_commit"
    /\ UNCHANGED << session, is_loading, inputs, config_file, task, rs,
                    shutdown_tasks, startup, lock >>

\* ------------------------------------------------------------------------
\* The timeline collector, in the login task and in the refetch task
\* ------------------------------------------------------------------------

InTimeline(at) == task \in { "login", "refetch" } /\ pc = at

\* client.subscribe(timeline_filter)
TimelineSubscribe ==
    /\ InTimeline("tl_subscribe")
    /\ SetTaskClient(subscribe(TaskClient),
                     [loc EXCEPT !.sub = Some(new_subscription_id(TaskClient)),
                                 !.collected_statuses = << >>])
    /\ pc' = "tl_select"
    /\ UNCHANGED << is_logged_in, my_keys, followed_pubkeys, followed_pubkeys_display,
                    status_timeline_display, connected_relays_display, is_loading,
                    inputs, config_file, task, rs, shutdown_tasks, startup, lock >>

TimelineOpenReceiver ==
    /\ InTimeline("tl_select")
    /\ pc' = "tl_wait"
    /\ UNCHANGED << session, is_loading, inputs, config_file, task, loc, rs,
                    shutdown_tasks, startup, lock >>

\* select!: the 10 s sleep completes first.
TimelineTimeout ==
    /\ InTimeline("tl_wait")
    /\ pc' = "tl_unsub"
    /\ UNCHANGED << session, is_loading, inputs, config_file, task, loc, rs,
                    shutdown_tasks, startup, lock >>

\* Whether the timeline loop collects the notification.
status_matches(notification) ==
    /\ notification.type = "Event"
    /\ notification.kind = "Status"

\* select!: notifications.recv() returns Ok(notification); the loop goes on.
TimelineRecv(notification) ==
    /\ InTimeline("tl_wait")
    /\ TaskClient.relays # {}
    /\ status_matches(notification) => Len(loc.collected_statuses) < MaxStatuses
    /\ IF status_matches(notification)
       THEN loc' = [loc EXCEPT !.collected_statuses =
                        Append(@, << notification.pubkey, d_tag(notification.tags),
                                     notification.content >>)]
       ELSE UNCHANGED loc
    /\ UNCHANGED << session, is_loading, inputs, config_file, task, pc, rs,
                    shutdown_tasks, startup, lock >>

TimelineStreamClosed ==
    /\ InTimeline("tl_wait")
    /\ pc' = "tl_unsub"
    /\ UNCHANGED << session, is_loading, inputs, config_file, task, loc, rs,
                    shutdown_tasks, startup, lock >>

\* The timeline text without the branch for an empty collection.
timeline_text_without_placeholder(collected_statuses) ==
    format_statuses(collected_statuses)

\* The text a fetch that collected collected_statuses puts in the timeline.
timeline_text(collected_statuses) ==
    IF collected_statuses # << >>
    THEN format_statuses(collected_statuses)
    ELSE Text("No NIP-38 statuses found for followed users.")

\* client.unsubscribe(timeline_filter_id)
TimelineUnsubscribe ==
    /\ InTimeline("tl_unsub")
    /\ SetTaskClient(unsubscribe(TaskClient, Unwrap(loc.sub)),
                     [loc EXCEPT !.final_timeline_display =
                                     timeline_text(loc.collected_statuses)])
    /\ pc' = IF task = "login" THEN "l_commit" ELSE "rf_commit"
    /\ UNCHANGED << is_logged_in, my_keys, followed_pubkeys, followed_pubkeys_display,
                    status_timeline_display, connected_relays_display, is_loading,
                    inputs, config_file, task, rs, shutdown_tasks, startup, lock >>

\* The login commit that leaves my_keys as it was.
LoginCommit_without_keys ==
    /\ task = "login" /\ pc = "l_commit"
    /\ lock = "task"
    /\ nostr_client' = loc.client
    /\ followed_pubkeys' = loc.followed_pubkeys
    /\ followed_pubkeys_display' = [pubkeys |-> loc.followed_pubkeys]
    /\ status_timeline_display' = loc.final_timeline_display
    /\ connected_relays_display' = relays_section(Unwrap(loc.log_message))
    /\ is_logged_in' = TRUE
    /\ loc' = [loc EXCEPT !.result = Some(Ok("done")), !.client = None, !.keys = None]
    /\ pc' = "l_finish"
    /\ lock' = "free"
    /\ UNCHANGED << my_keys, is_loading, inputs, config_file, task, rs,
                    shutdown_tasks, startup >>

\* 5. the login task's update of the session state, under the lock.
LoginCommit ==
    /\ task = "login" /\ pc = "l_commit"
    /\ lock = "task"
    /\ my_keys' = loc.keys
    /\ nostr_client' = loc.client
    /\ followed_pubkeys' = loc.followed_pubkeys
    /\ followed_pubkeys_display' = [pubkeys |-> loc.followed_pubkeys]
    /\ status_timeline_display' = loc.final_timeline_display
    /\ connected_relays_display' = relays_section(Unwrap(loc.log_message))
    /\ is_logged_in' = TRUE
    /\ loc' = [loc EXCEPT !.result = Some(Ok("done")), !.client = None, !.keys = None]
    /\ pc' = "l_finish"
    /\ lock' = "free"
    /\ UNCHANGED << is_loading, inputs, config_file, task, rs, shutdown_tasks,
                    startup >>

\* A failure cleanup that also removes config.json.
LoginFailureCleanup_removes_vault ==
    /\ task = "login" /\ pc = "l_cleanup"
    /\ lock = "task"
    /\ nostr_client' = None
    /\ loc' = [loc EXCEPT !.client_to_shutdown = nostr_client]
    /\ pc' = "l_shutdown"
    /\ lock' = "free"
    /\ config_file' = None
    /\ UNCHANGED << is_logged_in, my_keys, followed_pubkeys, followed_pubkeys_display,
                    status_timeline_display, connected_relays_display, is_loading,
                    inputs, task, rs, shutdown_tasks, startup >>

\* if let Err(e) = login_result: take the session's client under the lock.
\* The login task's own client is its local variable client, not the
\* session's.
LoginFailureCleanup ==
    /\ task = "login" /\ pc = "l_cleanup"
    /\ lock = "task"
    /\ nostr_client' = None
    /\ loc' = [loc EXCEPT !.client_to_shutdown = nostr_client]
    /\ pc' = "l_shutdown"
    /\ lock' = "free"
    /\ UNCHANGED << is_logged_in, my_keys, followed_pubkeys, followed_pubkeys_display,
                    status_timeline_display, connected_relays_display, is_loading,
                    inputs, config_file, task, rs, shutdown_tasks, startup >>

\* With the lock released: if let Some(client) = client_to_shutdown, shut
\* that client down.
LoginCleanupShutdown ==
    /\ task = "login" /\ pc = "l_shutdown"
    /\ loc' = [loc EXCEPT !.client_to_shutdown =
                    IF IsSome(loc.client_to_shutdown)
                    THEN Some(shutdown(Unwrap(loc.client_to_shutdown)))
                    ELSE None]
    /\ pc' = "l_finish"
    /\ UNCHANGED << session, is_loading, inputs, config_file, task, rs,
                    shutdown_tasks, startup, lock >>

\* The end of the login task: is_loading = false; its locals are dropped.
LoginFinish ==
    /\ task = "login" /\ pc = "l_finish"
    /\ lock = "task"
    /\ is_loading' = FALSE
    /\ task' = "none"
    /\ pc' = "idle"
    /\ loc' = NoLocals
    /\ lock' = "free"
    /\ UNCHANGED << session, inputs, config_file, rs, shutdown_tasks, startup >>

\* ------------------------------------------------------------------------
\* Register
\* ------------------------------------------------------------------------

\* The "Register New Key" button, shown when config.json does not exist.
ClickRegister ==
    /\ LoginFormEnabled
    /\ ~config_exists
    /\ ~is_loading
    /\ is_loading' = TRUE
    /\ task' = "register"
    /\ pc' = "rg_run"
    /\ loc' = [NoLocals EXCEPT !.secret_key_input = secret_key_input,
                               !.passphrase = passphrase_input,
                               !.confirm_passphrase = confirm_passphrase_input]
    /\ UNCHANGED << session, inputs, config_file, rs,
                    shutdown_tasks, startup, lock >>

\* What fs::write(CONFIG_FILE, text) can do: write the whole text and
\* return Ok; fail before it creates or truncates the file; or fail after
\* that, with only a part of the text in the file.
WriteOutcomes == { "written", "failed", "partial" }

\* The file after a write that stopped part way: a proper prefix of the
\* text of a JSON object, which is not JSON.
partial_write(text) == [json |-> FALSE]

\* The register task up to its commit: the passphrase check (the mismatch
\* is reported under the lock), then the closure that parses the key,
\* encrypts it under a fresh salt and nonce and writes config.json.
RegisterRun(salt, nonce, write) ==
    /\ task = "register" /\ pc = "rg_run"
    /\ IF loc.passphrase # loc.confirm_passphrase
       THEN /\ lock = "task"
            /\ is_loading' = FALSE
            /\ task' = "none"
            /\ pc' = "idle"
            /\ loc' = NoLocals
            /\ lock' = "free"
            /\ UNCHANGED config_file
       ELSE LET user_provided_keys == Keys_parse(loc.secret_key_input)
                config_json ==
                    to_string_pretty(vault_record(user_provided_keys.v,
                                                  loc.passphrase, salt, nonce))
            IN /\ IF ~user_provided_keys.ok
                  THEN /\ loc' = [loc EXCEPT !.result = Some(user_provided_keys)]
                       /\ UNCHANGED config_file
                  ELSE IF write = "written"
                  THEN /\ config_file' = Some(config_json)
                       /\ loc' = [loc EXCEPT !.result = Some(user_provided_keys)]
                  ELSE /\ config_file' = IF write = "partial"
                                         THEN Some(partial_write(config_json))
                                         ELSE config_file
                       /\ loc' = [loc EXCEPT !.result = Some(Err("Io"))]
               /\ pc' = "rg_commit"
               /\ UNCHANGED << is_loading, task, lock >>
    /\ UNCHANGED << session, inputs, rs, shutdown_tasks, startup >>

\* The register commit that opens the session whatever the closure returned.
RegisterCommit_ignores_result ==
    /\ task = "register" /\ pc = "rg_commit"
    /\ lock = "task"
    /\ is_loading' = FALSE
    /\ LET result == Unwrap(loc.result)
       IN /\ my_keys' = IF result.ok THEN Some(result.v) ELSE my_keys
          /\ nostr_client' = Some(Client_new)
          /\ is_logged_in' = TRUE
    /\ task' = "none"
    /\ pc' = "idle"
    /\ loc' = NoLocals
    /\ lock' = "free"
    /\ UNCHANGED << followed_pubkeys, followed_pubkeys_display,
                    status_timeline_display, connected_relays_display, inputs,
                    config_file, rs, shutdown_tasks, startup >>

\* The register task's update of the session state, under the lock.
RegisterCommit ==
    /\ task = "register" /\ pc = "rg_commit"
    /\ lock = "task"
    /\ is_loading' = FALSE
    /\ LET result == Unwrap(loc.result)
       IN IF result.ok
          THEN /\ my_keys' = Some(result.v)
               /\ nostr_client' = Some(Client_new)
               /\ is_logged_in' = TRUE
          ELSE UNCHANGED << my_keys, nostr_client, is_logged_in >>
    /\ task' = "none"
    /\ pc' = "idle"
    /\ loc' = NoLocals
    /\ lock' = "free"
    /\ UNCHANGED << followed_pubkeys, followed_pubkeys_display,
                    status_timeline_display, connected_relays_display, inputs,
                    config_file, rs, shutdown_tasks, startup >>

\* ------------------------------------------------------------------------
\* The logged-in view
\* ------------------------------------------------------------------------

\* The session view left enabled while an action is loading.
SessionViewEnabled_while_loading == lock = "free" /\ is_logged_in

\* The view is drawn inside add_enabled_ui(!is_loading), for is_logged_in,
\* in a frame, which holds the lock from its first line to its last.
SessionViewEnabled == lock = "free" /\ ~is_loading /\ is_logged_in

EditStatusMessage(length) ==
    /\ SessionViewEnabled
    /\ status_message_input' = length
    /\ UNCHANGED << session, is_loading, secret_key_input, passphrase_input,
                    confirm_passphrase_input, config_file, task, pc, loc, rs,
                    shutdown_tasks, startup, lock >>

\* The length check off by one.
too_long_off_by_one(status_message) == status_message >= MAX_STATUS_LENGTH

\* status_message.chars().count() > MAX_STATUS_LENGTH
too_long(status_message) == status_message > MAX_STATUS_LENGTH

\* The "Publish Status" button: a text that is too long is rejected in the
\* handler, otherwise the publish task is spawned.
ClickPublish ==
    /\ SessionViewEnabled
    /\ ~is_loading
    /\ IF too_long(status_message_input)
       THEN UNCHANGED << is_loading, task, pc, loc >>
       ELSE /\ is_loading' = TRUE
            /\ task' = "publish"
            /\ pc' = "p_send"
            /\ loc' = [NoLocals EXCEPT !.status_message = status_message_input,
                                       !.keys = Some(Unwrap(my_keys))]
    /\ UNCHANGED << session, inputs, config_file, rs,
                    shutdown_tasks, startup, lock >>

\* The status event built without an identifier tag.
status_event_untagged(status_message, keys) ==
    [type |-> "Event", kind |-> "Status", pubkey |-> public_key(keys),
     tags |-> << >>, content |-> status_message]

\* EventBuilder::new(Kind 30315, status_message, [Identifier("general")])
status_event(status_message, keys) ==
    [type |-> "Event", kind |-> "Status", pubkey |-> public_key(keys),
     tags |-> << Identifier("general") >>, content |-> status_message]

\* The publish task: build the event and send_event (sent: whether it
\* returns Ok).
PublishSend(sent) ==
    /\ task = "publish" /\ pc = "p_send"
    /\ sent => Unwrap(nostr_client).relays # {}
    /\ loc' = [loc EXCEPT
                   !.event = Some(status_event(loc.status_message, Unwrap(loc.keys))),
                   !.result = Some(IF sent THEN Ok("event_id") ELSE Err("Transport"))]
    /\ pc' = IF sent THEN "p_clear" ELSE "p_finish"
    /\ UNCHANGED << session, is_loading, inputs, config_file, task, rs,
                    shutdown_tasks, startup, lock >>

\* After a successful send the task clears the input, under the lock.
PublishClear ==
    /\ task = "publish" /\ pc = "p_clear"
    /\ lock = "task"
    /\ status_message_input' = 0
    /\ pc' = "p_finish"
    /\ lock' = "free"
    /\ UNCHANGED << session, is_loading, secret_key_input, passphrase_input,
                    confirm_passphrase_input, config_file, task, loc, rs,
                    shutdown_tasks, startup >>

\* The publish task ending without the reset of is_loading.
PublishFinish_keeps_loading ==
    /\ task = "publish" /\ pc = "p_finish"
    /\ lock = "task"
    /\ task' = "none"
    /\ pc' = "idle"
    /\ loc' = NoLocals
    /\ lock' = "free"
    /\ UNCHANGED << session, is_loading, inputs, config_file, rs, shutdown_tasks,
                    startup >>

\* The publish task's last step, under the lock.
PublishFinish ==
    /\ task = "publish" /\ pc = "p_finish"
    /\ lock = "task"
    /\ is_loading' = FALSE
    /\ task' = "none"
    /\ pc' = "idle"
    /\ loc' = NoLocals
    /\ lock' = "free"
    /\ UNCHANGED << session, inputs, config_file, rs, shutdown_tasks, startup >>

\* The "Fetch Latest Statuses" button.
ClickRefetch ==
    /\ SessionViewEnabled
    /\ ~is_loading
    /\ IsSome(nostr_client)
    /\ is_loading' = TRUE
    /\ task' = "refetch"
    /\ pc' = "rf_start"
    /\ loc' = [NoLocals EXCEPT !.followed_pubkeys = followed_pubkeys]
    /\ UNCHANGED << session, inputs, config_file, rs,
                    shutdown_tasks, startup, lock >>

\* The refetch task without its guard: it subscribes whatever the follow set.
RefetchStart_unguarded ==
    /\ task = "refetch" /\ pc = "rf_start"
    /\ pc' = "tl_subscribe"
    /\ UNCHANGED << session, is_loading, inputs, config_file, task, loc, rs,
                    shutdown_tasks, startup, lock >>

\* The refetch task's guard on an empty follow set.
RefetchStart ==
    /\ task = "refetch" /\ pc = "rf_start"
    /\ IF loc.followed_pubkeys = {}
       THEN /\ lock = "task"
            /\ status_timeline_display' =
                   Text("No timeline available without followed users.")
            /\ is_loading' = FALSE
            /\ task' = "none"
            /\ pc' = "idle"
            /\ loc' = NoLocals
            /\ lock' = "free"
       ELSE /\ pc' = "tl_subscribe"
            /\ UNCHANGED << status_timeline_display, is_loading, task, loc, lock >>
    /\ UNCHANGED << is_logged_in, my_keys, nostr_client, followed_pubkeys,
                    followed_pubkeys_display, connected_relays_display, inputs,
                    config_file, rs, shutdown_tasks, startup >>

\* A refetch that adds what it collected to the entries already shown.
RefetchCommit_appends ==
    /\ task = "refetch" /\ pc = "rf_commit"
    /\ lock = "task"
    /\ is_loading' = FALSE
    /\ status_timeline_display' =
           IF "entries" \in DOMAIN status_timeline_display
           THEN format_statuses(status_timeline_display.entries \o loc.collected_statuses)
           ELSE timeline_text(loc.collected_statuses)
    /\ task' = "none"
    /\ pc' = "idle"
    /\ loc' = NoLocals
    /\ lock' = "free"
    /\ UNCHANGED << is_logged_in, my_keys, nostr_client, followed_pubkeys,
                    followed_pubkeys_display, connected_relays_display, inputs,
                    config_file, rs, shutdown_tasks, startup >>

\* The refetch task's update of the session state, under the lock.
RefetchCommit ==
    /\ task = "refetch" /\ pc = "rf_commit"
    /\ lock = "task"
    /\ is_loading' = FALSE
    /\ status_timeline_display' = timeline_text(loc.collected_statuses)
    /\ task' = "none"
    /\ pc' = "idle"
    /\ loc' = NoLocals
    /\ lock' = "free"
    /\ UNCHANGED << is_logged_in, my_keys, nostr_client, followed_pubkeys,
                    followed_pubkeys_display, connected_relays_display, inputs,
                    config_file, rs, shutdown_tasks, startup >>

\* The "Re-Connect to Relays (NIP-65)" button.
ClickReconnect ==
    /\ SessionViewEnabled
    /\ ~is_loading
    /\ IsSome(nostr_client)
    /\ is_loading' = TRUE
    /\ task' = "reconnect"
    /\ pc' = "r_bootstrap"
    /\ loc' = [NoLocals EXCEPT !.keys = Some(Unwrap(my_keys))]
    /\ UNCHANGED << session, inputs, config_file, rs,
                    shutdown_tasks, startup, lock >>

\* The reconnect task after connect_to_relays_with_nip65 returned: the Ok
\* arm shows the relays under the lock, the Err arm only logs the error.
ReconnectResolverReturned ==
    /\ task = "reconnect" /\ pc = "r_return"
    /\ LET result == Unwrap(rs.result)
       IN IF result.ok
          THEN /\ lock = "task"
               /\ connected_relays_display' = relays_section(result.v)
               /\ lock' = "free"
          ELSE UNCHANGED << connected_relays_display, lock >>
    /\ loc' = [loc EXCEPT !.result = rs.result]
    /\ rs' = NoResolver
    /\ pc' = "rc_finish"
    /\ UNCHANGED << is_logged_in, my_keys, nostr_client, followed_pubkeys,
                    followed_pubkeys_display, status_timeline_display,
                    is_loading, inputs, config_file, task, shutdown_tasks,
                    startup >>

\* The reconnect task's last step, under the lock.
ReconnectFinish ==
    /\ task = "reconnect" /\ pc = "rc_finish"
    /\ lock = "task"
    /\ is_loading' = FALSE
    /\ task' = "none"
    /\ pc' = "idle"
    /\ loc' = NoLocals
    /\ lock' = "free"
    /\ UNCHANGED << session, inputs, config_file, rs, shutdown_tasks, startup >>

\* The slot runtime_handle.spawn puts the next shutdown task in.
free_slot(slots) ==
    CHOOSE slot \in ShutdownSlots :
        /\ slots[slot] = None
        /\ \A other \in ShutdownSlots : slots[other] = None => slot <= other

\* A logout that resets the session and spawns nothing.
ClickLogout_without_shutdown ==
    /\ SessionViewEnabled
    /\ nostr_client' = None
    /\ is_logged_in' = FALSE
    /\ my_keys' = None
    /\ followed_pubkeys' = {}
    /\ followed_pubkeys_display' = Text("")
    /\ status_timeline_display' = Text("")
    /\ status_message_input' = 0
    /\ passphrase_input' = ""
    /\ confirm_passphrase_input' = ""
    /\ secret_key_input' = ""
    /\ UNCHANGED << connected_relays_display, is_loading, config_file, task, pc,
                    loc, rs, shutdown_tasks, startup, lock >>

\* The "Logout" button: reset the session, spawn the client's shutdown.
ClickLogout ==
    /\ SessionViewEnabled
    /\ IsSome(nostr_client) => \E slot \in ShutdownSlots : shutdown_tasks[slot] = None
    /\ nostr_client' = None
    /\ is_logged_in' = FALSE
    /\ my_keys' = None
    /\ followed_pubkeys' = {}
    /\ followed_pubkeys_display' = Text("")
    /\ status_timeline_display' = Text("")
    /\ status_message_input' = 0
    /\ passphrase_input' = ""
    /\ confirm_passphrase_input' = ""
    /\ secret_key_input' = ""
    /\ shutdown_tasks' =
           IF IsSome(nostr_client)
           THEN [shutdown_tasks EXCEPT ![free_slot(shutdown_tasks)] = nostr_client]
           ELSE shutdown_tasks
    /\ UNCHANGED << connected_relays_display, is_loading, config_file, task, pc,
                    loc, rs, startup, lock >>

\* The task logout spawned: client.shutdown().await
LogoutShutdown(slot) ==
    /\ IsSome(shutdown_tasks[slot])
    /\ shutdown_tasks' = [shutdown_tasks EXCEPT ![slot] = None]
    /\ UNCHANGED << session, is_loading, inputs, config_file, task, pc, loc, rs,
                    startup, lock >>

\* ------------------------------------------------------------------------
\* The specification
\* ------------------------------------------------------------------------

AllUrls == Nip65Urls \cup Range(fallback_relays) \cup Range(bootstrap_relays)

\* The whole application runs with a few representative inputs from the
\* network; SpecResolver below runs the resolver with all of them.
FewRelayListTags ==
    { << RelayMetadata("wss://a", "Write"), RelayMetadata("wss://b", "Read") >>,
      << RelayMetadata("wss://a", "Read") >> }
FewNotifications ==
    { Event("RelayList", pk, tags) : pk \in OwnPubKeys, tags \in FewRelayListTags }
        \cup { Event("ContactList", pk, tags) :
                   pk \in OwnPubKeys,
                   tags \in { << >>, << PublicKeyTag(<< "pub", "kx" >>) >> } }
        \cup { Event("ContactList", << "pub", "kx" >>,
                     << PublicKeyTag(<< "pub", "kz" >>) >>) }
        \cup { Event("Status", << "pub", "kx" >>, << >>),
               Event("Status", << "pub", "kz" >>, << Identifier("music") >>) }
        \cup { Message }
FewFailures == { {}, { "wss://a" }, { "wss://yabu.me", "wss://purplepag.es" }, AllUrls }

FormSteps(texts) ==
    \/ \E text \in texts : EditSecretKey(text)
    \/ \E text \in Passphrases : EditPassphrase(text)
    \/ \E text \in Passphrases : EditConfirmPassphrase(text)

ResolverSteps(notifications, failures) ==
    \/ \E failing \in failures : ResolverBootstrap(failing)
    \/ ResolverSubscribe
    \/ ResolverOpenReceiver
    \/ ResolverTimeout
    \/ \E notification \in notifications : ResolverRecv(notification)
    \/ ResolverStreamClosed
    \/ ResolverUnsubscribe
    \/ \E ok \in BOOLEAN : ResolverShutdown(ok)
    \/ \E failing \in failures : ResolverCommit(failing)

TimelineSteps(notifications) ==
    \/ TimelineSubscribe
    \/ TimelineOpenReceiver
    \/ TimelineTimeout
    \/ \E notification \in notifications : TimelineRecv(notification)
    \/ TimelineStreamClosed
    \/ TimelineUnsubscribe

LoginSteps(notifications) ==
    \/ ClickLogin
    \/ LoginDecrypt
    \/ LoginResolverReturned
    \/ LoginSubscribe
    \/ LoginOpenReceiver
    \/ LoginTimeout
    \/ \E notification \in notifications : LoginRecv(notification)
    \/ LoginStreamClosed
    \/ LoginUnsubscribe
    \/ LoginCommit
    \/ LoginFailureCleanup
    \/ LoginCleanupShutdown
    \/ LoginFinish

RegisterSteps(salts, nonces) ==
    \/ ClickRegister
    \/ \E salt \in salts, nonce \in nonces, write \in WriteOutcomes :
           RegisterRun(salt, nonce, write)
    \/ RegisterCommit

PublishSteps ==
    \/ \E length \in StatusLengths : EditStatusMessage(length)
    \/ ClickPublish
    \/ \E sent \in BOOLEAN : PublishSend(sent)
    \/ PublishClear
    \/ PublishFinish

RefetchSteps ==
    \/ ClickRefetch
    \/ RefetchStart
    \/ RefetchCommit

ReconnectSteps ==
    \/ ClickReconnect
    \/ ReconnectResolverReturned
    \/ ReconnectFinish

LogoutSteps ==
    \/ ClickLogout
    \/ \E slot \in ShutdownSlots : LogoutShutdown(slot)

Next ==
    \/ TaskLock
    \/ FormSteps(SecretKeyTexts)
    \/ LoginSteps(FewNotifications)
    \/ ResolverSteps(FewNotifications, FewFailures)
    \/ TimelineSteps(FewNotifications)
    \/ RegisterSteps(Salts, Nonces)
    \/ PublishSteps
    \/ RefetchSteps
    \/ ReconnectSteps
    \/ LogoutSteps

Spec == Init /\ [][Next]_vars

\* The resolver with every relay-list event and every set of failing adds,
\* in the login and reconnect tasks.  The follow list it finds is empty, so
\* no timeline is fetched, and the session it logs in is kept.
ResolverNotifications ==
    { Event("RelayList", pk, tags) : pk \in OwnPubKeys, tags \in RelayListTags }
        \cup { Event("RelayList", << "pub", "kx" >>,
                     << RelayMetadata("wss://b", "Write") >>) }
        \cup { Event("ContactList", pk, << >>) : pk \in OwnPubKeys }
        \cup { Message }
\* One bulk add names bootstrap relays only, relay-list entries only or
\* defaults only, so the sets of failing adds are drawn per list.
ResolverFailures ==
    (SUBSET Range(bootstrap_relays))
        \cup (SUBSET Nip65Urls) \cup (SUBSET Range(fallback_relays))
\* What the login task's own contact-list collector is handed.
ResolverContactNotifications ==
    { Event("ContactList", pk, << >>) : pk \in OwnPubKeys }
        \cup { Event("ContactList", << "pub", "kx" >>,
                     << PublicKeyTag(<< "pub", "kz" >>) >>) }
        \cup { Event("RelayList", << "pub", "kx" >>,
                     << RelayMetadata("wss://b", "Write") >>) }
        \cup { Message }

NextResolver ==
    \/ TaskLock
    \/ \E text \in Passphrases : EditPassphrase(text)
    \/ LoginSteps(ResolverContactNotifications)
    \/ ResolverSteps(ResolverNotifications, ResolverFailures)
    \/ ReconnectSteps

SpecResolver == Init /\ [][NextResolver]_vars

\* The same with the transport delivering in the window between a subscribe
\* call and the creation of the lookup's notification receiver.
NextDelivery ==
    \/ NextResolver
    \/ \E notification \in ResolverNotifications :
           ResolverDeliverBeforeReceiver(notification)
    \/ \E notification \in ResolverContactNotifications :
           LoginDeliverBeforeReceiver(notification)

SpecDelivery == Init /\ [][NextDelivery]_vars

\* Sessions opened by a login or a registration and closed by a logout.
\* The runtime the shutdown task is spawned on runs every spawned task, so
\* each pending shutdown is taken under weak fairness.
LogoutNotifications ==
    { Event("ContactList", pk, << >>) : pk \in OwnPubKeys } \cup { Message }
LogoutFailures == { {}, { "wss://yabu.me" } }

NextLogout ==
    \/ TaskLock
    \/ FormSteps(SecretKeyTexts)
    \/ LoginSteps(LogoutNotifications)
    \/ ResolverSteps(LogoutNotifications, LogoutFailures)
    \/ RegisterSteps(Salts, Nonces)
    \/ LogoutSteps

SpecLogout ==
    /\ Init
    /\ [][NextLogout]_vars
    /\ \A slot \in ShutdownSlots : WF_vars(LogoutShutdown(slot))

\* The vault: registrations of every key under every passphrase, salt and
\* nonce, and the logins that load what they stored or what was on disk at
\* the start.  The network hands every identity its (empty) follow list.
VaultNotifications ==
    { Event("ContactList", public_key(Keys_parse(k).v), << >>) :
          k \in ValidSecretKeys } \cup { Message }

NextVault ==
    \/ TaskLock
    \/ FormSteps(ValidSecretKeys \cup { "" })
    \/ LoginSteps(VaultNotifications)
    \/ ResolverSteps(VaultNotifications, { {} })
    \/ RegisterSteps(VaultSalts, VaultNonces)
    \/ LogoutSteps

SpecVault == InitWith(VaultFiles) /\ [][NextVault]_vars

\* The places where a task awaits the network or a timer: the resolver's
\* and the collectors' calls on a client, send_event, client.shutdown().
AwaitPoints ==
    { "r_bootstrap", "r_subscribe", "r_wait", "r_select", "r_unsub", "r_shutdown",
      "r_commit", "l_subscribe", "l_wait", "l_select", "l_unsub", "l_shutdown",
      "tl_subscribe", "tl_wait", "tl_select", "tl_unsub", "p_send" }

\* Every task of the application with the startup task beside it, on one
\* identity that follows one user or nobody.
NextLock ==
    LET notifications ==
            LogoutNotifications \cup
            { Event("ContactList", pk, << PublicKeyTag(<< "pub", "kx" >>) >>) :
                  pk \in OwnPubKeys } \cup
            { Event("Status", << "pub", "kx" >>, << >>) }
    IN \/ TaskLock
       \/ StartupLock
       \/ StartupCheck
       \/ FormSteps(SecretKeyTexts)
       \/ LoginSteps(notifications)
       \/ ResolverSteps(notifications, { {} })
       \/ TimelineSteps(notifications)
       \/ RegisterSteps(Salts, Nonces)
       \/ PublishSteps
       \/ RefetchSteps
       \/ ReconnectSteps
       \/ LogoutSteps

SpecLock ==
    InitWith({ None, Some(to_string_pretty(GoodRecord)) }) /\ [][NextLock]_vars

\* The same with the runtime's scheduling: a spawned task that can take a
\* step (its timers fire, its transport calls return, the lock is handed
\* over) eventually takes one, and the startup task runs to its end.
SpecFair ==
    /\ SpecLock
    /\ WF_vars(task # "none" /\ NextLock /\ UNCHANGED << shutdown_tasks, startup >>)
    /\ WF_vars(StartupCheck)

\* ------------------------------------------------------------------------
\* Properties
\* ------------------------------------------------------------------------

LoginSucceeded == IsSome(loc.result) /\ Unwrap(loc.result).ok
LoginFailedWith(e) == task = "login" /\ loc.result = Some(Err(e))
ResolverReturning == pc = "r_return"
ResolverCommitted == ResolverReturning /\ rs.committed
Urls(seq) == Range(seq)
WriteOrUnspecified(nip65_relays) ==
    { nip65_relays[i].url :
          i \in { j \in 1..Len(nip65_relays) :
                      nip65_relays[j].policy \in { Some("write"), None } } }

\* C1: a login attempt that has not committed, or that failed, leaves the
\* shared session state as it was when the attempt started: logged out, no
\* keys, no client, and follow set, timeline and relay display unchanged by
\* every step of the attempt.
C1_FailedLoginLeavesSessionUntouched ==
    [][ /\ (task # "login" /\ task' = "login")
            => (~is_logged_in /\ my_keys = None /\ nostr_client = None
                /\ session' = session)
        /\ (task = "login" /\ pc # "l_commit" /\ ~LoginSucceeded)
            => (/\ session' = session
                /\ ~is_logged_in' /\ my_keys' = None /\ nostr_client' = None)
      ]_vars

\* C1 witness: a login that failed at the follow-list stage, in a session
\* whose relay display still shows an earlier login.
C1_Witness ==
    /\ LoginFailedWith("ContactListNotFound")
    /\ pc = "l_finish"
    /\ connected_relays_display # Text("")

C4_EmptySelectionFallsBack ==
    (ResolverCommitted /\ rs.received_nip65_event
         /\ WriteOrUnspecified(rs.nip65_relays) = {})
        => TaskClient.relays = Urls(fallback_relays) \ rs.failed_adds

\* C5: the resolver returns NoReachableRelays exactly when it committed and
\* the session client has no relay; a failed add alone does not make the
\* call fail; a login that got the error is not logged in.
C5_NoReachableRelaysIffNoRelay ==
    /\ ResolverReturning
        => /\ (rs.result = Some(Err("NoReachableRelays")))
                <=> (rs.committed /\ TaskClient.relays = {})
           /\ (rs.committed /\ TaskClient.relays # {}) => Unwrap(rs.result).ok
    /\ LoginFailedWith("NoReachableRelays")
        => (~is_logged_in /\ my_keys = None /\ nostr_client = None)

\* C5 witness: a login whose resolver call ended without a relay after a
\* bootstrap add and every default add failed.
C5_Witness ==
    /\ LoginFailedWith("NoReachableRelays")
    /\ pc = "l_finish"

\* C6: a subscription is open only between a collector's subscribe and its
\* unsubscribe, and it is the one that collector opened; after a collector
\* has returned, whichever way its wait ended, its client has none.
C6_UnsubscribedOnEveryPath ==
    /\ IsSome(rs.discover_client)
        => Unwrap(rs.discover_client).subs =
               IF pc \in { "r_select", "r_wait", "r_unsub" }
               THEN { Unwrap(rs.sub) } ELSE {}
    /\ IsSome(loc.client)
        => Unwrap(loc.client).subs =
               IF pc \in { "l_select", "l_wait", "l_unsub",
                           "tl_select", "tl_wait", "tl_unsub" }
               THEN { Unwrap(loc.sub) } ELSE {}
    /\ IsSome(nostr_client)
        => Unwrap(nostr_client).subs =
               IF task = "refetch" /\ pc \in { "tl_select", "tl_wait", "tl_unsub" }
               THEN { Unwrap(loc.sub) } ELSE {}

\* C6 witness: the relay-list collector has unsubscribed after its deadline.
C6_Witness ==
    /\ pc = "r_shutdown"
    /\ rs.timeout_logged
    /\ Unwrap(rs.discover_client).subs = {}
    /\ Unwrap(rs.discover_client).relays # {}

\* C7: a collector reports the timeout or a received event, never both, and
\* once its select! has completed nothing is added to what it collected.
C7_TimeoutOrCollectionNotBoth ==
    /\ [](~(rs.timeout_logged /\ rs.received_nip65_event))
    /\ [][ /\ pc \in { "r_unsub", "r_shutdown", "r_commit" }
               => /\ rs'.nip65_relays = rs.nip65_relays
                  /\ rs'.received_nip65_event = rs.received_nip65_event
                  /\ rs'.timeout_logged = rs.timeout_logged
           /\ pc = "l_unsub"
               => /\ loc'.followed_pubkeys = loc.followed_pubkeys
                  /\ loc'.received_nip02 = loc.received_nip02
           /\ pc = "tl_unsub"
               => loc'.collected_statuses = loc.collected_statuses
         ]_vars

\* C7 witness: the deadline of the relay-list collector has fired while its
\* discovery client had a relay that could still deliver an event.
C7_Witness ==
    /\ pc = "r_unsub"
    /\ rs.timeout_logged
    /\ Unwrap(rs.discover_client).relays # {}

\* C8: a login that received no follow-list event of the identity starts no
\* timeline fetch, does not commit and is not logged in.
C8_NoFollowListFailsLogin ==
    (task = "login" /\ ~loc.received_nip02)
        => /\ pc \notin { "tl_subscribe", "tl_select", "tl_wait", "tl_unsub",
                          "l_commit" }
           /\ ~is_logged_in
           /\ pc = "l_finish" => ~LoginSucceeded

\* C8 witness: the login failed because no follow list was found.
C8_Witness ==
    /\ LoginFailedWith("ContactListNotFound")
    /\ pc = "l_finish"
    /\ ~is_logged_in

EmptyTimelineText == Text("No NIP-38 statuses found for followed users.")

\* C9: a timeline fetch that collected nothing is no error: the login is
\* committed with the empty-timeline text, and a refetch sets that text and
\* leaves the session logged in.
C9_EmptyTimelineIsBenign ==
    /\ []((/\ task = "login" /\ pc = "l_finish"
           /\ loc.received_nip02 /\ loc.followed_pubkeys # {}
           /\ loc.collected_statuses = << >>)
             => (/\ LoginSucceeded
                 /\ is_logged_in
                 /\ status_timeline_display = EmptyTimelineText))
    /\ [][ (/\ task = "refetch" /\ pc = "rf_commit" /\ task' = "none"
            /\ loc.collected_statuses = << >>)
               => (/\ status_timeline_display' = EmptyTimelineText
                   /\ is_logged_in' /\ ~is_loading')
         ]_vars

\* C9 witness: a login committed after its timeline fetch collected nothing.
C9_Witness ==
    /\ task = "login" /\ pc = "l_finish"
    /\ loc.followed_pubkeys # {}
    /\ loc.collected_statuses = << >>
    /\ is_logged_in
    /\ status_timeline_display = EmptyTimelineText

\* What the publish button can do when it is clicked.
PublishSpawned == ClickPublish /\ task' = "publish"
PublishChangesState == ClickPublish /\ vars' # vars

\* C10: with a text of at most MAX_STATUS_LENGTH characters the publish click
\* starts the publish task, which builds the event from that text and calls
\* send_event; with a longer text the click starts no task and changes
\* nothing (is_loading is false after it), so no event is built or sent.
C10_StatusLengthBoundary ==
    /\ (SessionViewEnabled /\ status_message_input <= MAX_STATUS_LENGTH)
           => ENABLED PublishSpawned
    /\ (SessionViewEnabled /\ status_message_input > MAX_STATUS_LENGTH)
           => ~ENABLED PublishChangesState
    /\ task = "publish"
           => /\ loc.status_message <= MAX_STATUS_LENGTH
              /\ is_loading
              /\ pc = "p_finish"
                     => /\ IsSome(loc.result)
                        /\ IsSome(loc.event)
                        /\ Unwrap(loc.event).content = loc.status_message
    /\ task # "publish" => loc.event = None

\* C10 witness: a text of exactly MAX_STATUS_LENGTH characters was sent.
C10_Witness ==
    /\ task = "publish" /\ pc = "p_finish"
    /\ loc.status_message = MAX_STATUS_LENGTH
    /\ Unwrap(loc.result).ok

C12_VaultWrittenOnlyByRegistration ==
    [][ config_file' # config_file => (task = "register" /\ pc = "rg_run") ]_vars

\* A login that failed on a vault record that is on disk, at its end.
C12_Witness ==
    /\ task = "login" /\ pc = "l_finish"
    /\ IsSome(loc.result) /\ ~Unwrap(loc.result).ok
    /\ config_file = Some(to_string_pretty(GoodRecord))

C14_ShortPayloadSkipsDecrypt ==
    (/\ task = "login"
     /\ "decode_payload" \in Range(loc.calls)
     /\ base64_decode(from_str(Unwrap(config_file)).v.encrypted_secret_key.rest).ok
     /\ base64_decode(
            from_str(Unwrap(config_file)).v.encrypted_secret_key.rest).v.len
          < NONCE_LEN)
    => /\ loc.result = Some(Err("MalformedPayload"))
       /\ "cipher_decrypt" \notin Range(loc.calls)
       /\ ~is_logged_in /\ my_keys = None

\* A failed login on a record whose payload is one byte short of the nonce.
C14_Witness ==
    /\ task = "login" /\ pc = "l_finish"
    /\ config_file =
           Some(to_string_pretty(
               [GoodRecord EXCEPT
                    !.encrypted_secret_key.rest.bytes.len = NONCE_LEN - 1]))
    /\ loc.result = Some(Err("MalformedPayload"))

\* C15: a login whose authenticated decryption fails reports the one
\* decryption-failed error and changes nothing but the task's result,
\* whatever made the decryption fail (the passphrase typed, or the stored
\* ciphertext, nonce or salt): the step's outcome is a function of the
\* state before it that reads neither the record nor the passphrase.
C15_NoDecryptionOracle ==
    [][ (/\ task = "login" /\ pc = "l_keys"
         /\ loc'.calls # << >>
         /\ loc'.calls[Len(loc'.calls)] = "cipher_decrypt")
        => /\ loc' = [loc EXCEPT !.result = Some(Err("DecryptionFailed")),
                                 !.calls = loc'.calls]
           /\ loc'.calls = << "read_to_string", "from_str", "decode_salt",
                              "pbkdf2_hmac", "starts_with", "decode_payload",
                              "split_at", "cipher_decrypt" >>
           /\ pc' = "l_cleanup"
           /\ UNCHANGED << session, is_loading, inputs, config_file, task, rs,
                           shutdown_tasks, startup, lock >> ]_vars

\* A login with the right passphrase that failed on a record whose
\* ciphertext was replaced.
C15_Witness ==
    /\ task = "login" /\ pc = "l_finish"
    /\ config_file =
           Some(to_string_pretty(
               [GoodRecord EXCEPT !.encrypted_secret_key.rest.bytes.body = Garbage]))
    /\ loc.passphrase = "p1"
    /\ loc.result = Some(Err("DecryptionFailed"))
    /\ ~is_logged_in

\* C16: a login on a record whose encrypted_secret_key does not start with
\* "#nip49:" fails with the unsupported-format error, without the loader
\* having decoded the payload or called decrypt, and the session stays
\* logged out.
C16_ForeignPrefixIsUnsupportedFormat ==
    (/\ task = "login" /\ loc.calls # << >>
     /\ IsSome(config_file)
     /\ from_str(Unwrap(config_file)).ok
     /\ ~starts_with(from_str(Unwrap(config_file)).v.encrypted_secret_key,
                     NIP49_PREFIX))
    => /\ loc.result = Some(Err("UnsupportedFormat"))
       /\ "decode_payload" \notin Range(loc.calls)
       /\ "cipher_decrypt" \notin Range(loc.calls)
       /\ ~is_logged_in

\* C17: a save is all or nothing: whenever a step changes config.json, what
\* is on disk afterwards is the complete new record of the registration
\* that runs, so a later load sees no record, the old one or the new one.
C17_SaveIsAtomic ==
    [][ config_file' # config_file
        => \E salt \in Salts, nonce \in Nonces :
               config_file' =
                   Some(to_string_pretty(
                       vault_record(Keys_parse(loc.secret_key_input).v,
                                    loc.passphrase, salt, nonce))) ]_vars

\* C18: whoever holds the lock is not at an await: a task holds it only in
\* a section that ends without awaiting, the startup task only around its
\* check of config.json, and whenever the lock is held the step that
\* releases it can be taken, so nobody waits on the lock for the length of
\* a network wait and no deadlock on the lock is reachable.
C18_LockNeverHeldAcrossAwait ==
    /\ lock = "task" => (task # "none" /\ pc \notin AwaitPoints /\ wants_lock)
    /\ lock = "startup" => startup = "locked"
    /\ lock # "free" => ENABLED (NextLock /\ lock' = "free")

\* The publish task holding the lock to clear the input, after its send
\* has returned.
C18_Witness ==
    /\ lock = "task"
    /\ task = "publish" /\ pc = "p_clear"
    /\ Unwrap(loc.result).ok

\* C19: a reconnect that fails leaves the session logged in with the relay
\* set its client had: the step in which the resolver's call fails does
\* not change the relays of the session's client.
C19_FailedReconnectKeepsRelays ==
    [][ (/\ task = "reconnect"
         /\ IsSome(rs'.result)
         /\ ~Unwrap(rs'.result).ok)
        => /\ is_logged_in'
           /\ IsSome(nostr_client')
           /\ Unwrap(nostr_client').relays = Unwrap(nostr_client).relays ]_vars

\* C20: a login that failed has, at its end, no client left connected: the
\* discovery client was shut down when the resolver returned (unless the
\* shutdown call itself reported an error), and the client the task
\* connected to the resolved relays is shut down by the rollback.
C20_FailedLoginShutsDownClients ==
    /\ (task = "login" /\ pc = "r_return" /\ rs.result # Some(Err("Shutdown")))
           => ~Unwrap(rs.discover_client).connected
    /\ (/\ task = "login" /\ pc = "l_finish" /\ ~LoginSucceeded
        /\ IsSome(loc.client)
        /\ Unwrap(loc.client).relays # {})
           => ~Unwrap(loc.client).connected


\* C21: a login passes its stages in order, each only after the one before
\* succeeded: the resolver runs only with decrypted keys, the follow-list
\* fetch only with the resolver's report, the timeline stage only with a
\* received follow list, the commit only after the timeline stage set the
\* timeline text, and is_logged_in becomes true only in the commit.
C21_LoginStagesInOrder ==
    /\ [](task = "login"
            => /\ pc \notin { "l_keys", "l_cleanup", "l_shutdown", "l_finish" }
                    => (IsSome(loc.keys) /\ loc.calls # << >>)
               /\ pc \in { "l_subscribe", "l_select", "l_wait", "l_unsub",
                            "tl_subscribe", "tl_select", "tl_wait", "tl_unsub",
                            "l_commit" }
                    => (IsSome(loc.log_message) /\ rs = NoResolver)
               /\ pc \in { "tl_subscribe", "tl_select", "tl_wait", "tl_unsub",
                            "l_commit" }
                    => loc.received_nip02
               /\ pc = "l_commit" => loc.final_timeline_display # Text("")
               /\ pc # "l_finish" => ~is_logged_in)
    /\ [][ (task = "login" /\ ~is_logged_in /\ is_logged_in')
              => (pc = "l_commit" /\ pc' = "l_finish") ]_vars

\* A committed login that fetched a timeline for a non-empty follow set.
C21_Witness ==
    /\ task = "login" /\ pc = "l_finish"
    /\ is_logged_in
    /\ followed_pubkeys # {}
    /\ status_timeline_display \notin
           { Text(""), Text("No timeline available."), EmptyTimelineText }


\* C22: one resolver call moves forward only through Bootstrap, Query,
\* Decide and Commit: its position never goes back, the relay-list
\* subscription is issued once, in the Query step, and the session client's
\* relay set changes only in the Commit step, with the discovery client
\* unsubscribed and shut down; a call whose discovery shutdown failed
\* returns its error with the session client's relay set untouched.
C22_ResolverForwardOnly ==
    [][ LET order == << "r_bootstrap", "r_subscribe", "r_select", "r_wait",
                        "r_unsub", "r_shutdown", "r_commit", "r_return" >>
            stages == { order[i] : i \in 1..Len(order) }
            rank(at) == CHOOSE i \in 1..Len(order) : order[i] = at
        IN (pc \in stages /\ task \in { "login", "reconnect" })
             => /\ (pc' \in stages /\ pc' # pc)
                    => (/\ task' = task
                        /\ rank(pc') > rank(pc)
                        /\ pc' # "r_return" => rank(pc') = rank(pc) + 1)
                /\ rs'.sub # rs.sub
                    => (pc = "r_subscribe" /\ rs.sub = None) \/ pc = "r_return"
                /\ (pc # "r_return" /\ TaskClient'.relays # TaskClient.relays)
                    => /\ pc = "r_commit"
                       /\ Unwrap(rs.discover_client).shutdown
                       /\ Unwrap(rs.discover_client).subs = {}
                /\ (pc = "r_shutdown" /\ pc' # "r_commit")
                    => /\ pc' = "r_return"
                       /\ ~Unwrap(rs'.result).ok
                       /\ TaskClient' = TaskClient
                /\ pc' = "r_commit" => Unwrap(rs'.discover_client).shutdown
                /\ pc' \notin stages => pc = "r_return" ]_vars

\* A reconnect whose resolver call committed the relays of a received
\* relay list.
C22_Witness ==
    /\ task = "reconnect" /\ pc = "r_return"
    /\ rs.committed /\ rs.received_nip65_event
    /\ Unwrap(rs.discover_client).shutdown
    /\ Unwrap(nostr_client).relays = { "wss://a" }


\* C23: is_loading is true exactly while an action task is in flight, an
\* action task is started only when none is in flight and is_loading is
\* false, and no logout happens while is_loading is true.
C23_OneActionInFlight ==
    /\ [](is_loading <=> task # "none")
    /\ [][ /\ (task' # task /\ task' # "none")
                => (task = "none" /\ ~is_loading /\ is_loading' /\ lock = "free")
           /\ (is_logged_in /\ ~is_logged_in')
                => (~is_loading /\ task = "none") ]_vars

\* A refetch waiting for statuses in a logged-in session.
C23_Witness ==
    /\ is_loading /\ is_logged_in
    /\ task = "refetch" /\ pc = "tl_wait"
    /\ lock = "free"


\* C24: every started action ends: whenever is_loading is true it is
\* eventually false again with no task left, and every wait for events
\* (relay list, follow list, timeline) is eventually left.
C24_EveryActionTerminates ==
    /\ is_loading ~> (~is_loading /\ task = "none")
    /\ task # "none" ~> task = "none"
    /\ pc \in { "r_wait", "l_wait", "tl_wait" }
           ~> pc \notin { "r_wait", "l_wait", "tl_wait" }

\* A login whose timeline wait has collected what it can and can end only
\* by its deadline or the close of its stream.
C24_Witness ==
    /\ task = "login" /\ pc = "tl_wait"
    /\ is_loading
    /\ Len(loc.collected_statuses) = MaxStatuses


\* C25: a timeline fetch replaces the timeline: the collection of a fetch is
\* empty when its subscription is made and grows only by the status it
\* receives, and the step that completes a refetch or a login sets the
\* timeline to the entries of that collection alone (or to the text for
\* none), whatever the timeline showed before.
C25_FetchReplacesTimeline ==
    /\ [](pc \in { "tl_select" } => loc.collected_statuses = << >>)
    /\ [][ /\ (InTimeline("tl_wait") /\ loc'.collected_statuses # loc.collected_statuses)
               => /\ Len(loc'.collected_statuses) = Len(loc.collected_statuses) + 1
                  /\ SubSeq(loc'.collected_statuses, 1, Len(loc.collected_statuses))
                         = loc.collected_statuses
           /\ (task \in { "login", "refetch" } /\ pc \notin { "tl_subscribe", "tl_wait" }
                   /\ task' = task)
               => loc'.collected_statuses = loc.collected_statuses
           /\ (task = "refetch" /\ pc = "rf_commit" /\ task' = "none")
               => status_timeline_display' =
                      IF loc.collected_statuses = << >>
                      THEN EmptyTimelineText
                      ELSE [entries |-> loc.collected_statuses]
           /\ (task = "login" /\ pc = "l_commit" /\ pc' = "l_finish")
               => status_timeline_display' =
                      IF loc.followed_pubkeys = {}
                      THEN Text("No timeline available.")
                      ELSE IF loc.collected_statuses = << >>
                           THEN EmptyTimelineText
                           ELSE [entries |-> loc.collected_statuses] ]_vars

\* A refetch about to complete that collected a status other than the one
\* the timeline shows from the fetch before.
C25_Witness ==
    /\ task = "refetch" /\ pc = "rf_commit" /\ lock = "task"
    /\ loc.collected_statuses # << >>
    /\ "entries" \in DOMAIN status_timeline_display
    /\ status_timeline_display.entries # loc.collected_statuses


C27_PublishedCategoryIsGeneral ==
    (task = "publish" /\ IsSome(loc.event))
        => LET event == Unwrap(loc.event)
               identifiers == { i \in 1..Len(event.tags) :
                                    event.tags[i].tag = "Identifier" }
           IN /\ event.kind = "Status"
              /\ event.pubkey = public_key(Unwrap(my_keys))
              /\ Cardinality(identifiers) = 1
              /\ \A i \in identifiers : event.tags[i].d = "general"
              /\ d_tag(event.tags) = "general"

\* A publish task whose event was built and sent.
C27_Witness ==
    /\ task = "publish" /\ pc = "p_clear"
    /\ IsSome(loc.event)
    /\ Unwrap(loc.result).ok
    /\ Unwrap(loc.event).content > 0


\* C28: a single-event lookup takes its result from one notification, an
\* event of the kind asked for whose author is the identity's own key:
\* the relay list and the follow set are empty until such an event is
\* accepted and are then what that one event carries; the wait ends at the
\* step that accepts it, or with nothing accepted (deadline, closed stream),
\* and nothing changes the result after the wait.
C28_OnlyOwnEventAccepted ==
    /\ []((task \in { "login", "reconnect" } /\ rs # NoResolver /\ IsSome(loc.keys))
            => IF rs.received_nip65_event
               THEN \E n \in ResolverNotifications :
                        /\ n.type = "Event" /\ n.kind = "RelayList"
                        /\ n.pubkey = public_key(Unwrap(loc.keys))
                        /\ rs.nip65_relays = parse_relay_tags(n.tags)
               ELSE rs.nip65_relays = << >>)
    /\ []((task = "login" /\ IsSome(loc.keys))
            => IF loc.received_nip02
               THEN \E n \in ResolverContactNotifications :
                        /\ n.type = "Event" /\ n.kind = "ContactList"
                        /\ n.pubkey = public_key(Unwrap(loc.keys))
                        /\ loc.followed_pubkeys = contact_pubkeys(n.tags)
               ELSE loc.followed_pubkeys = {})
    /\ [][ /\ (InResolver("r_wait") /\ rs' # rs)
               => /\ pc' = "r_unsub"
                  /\ ~rs.received_nip65_event
                  /\ rs'.received_nip65_event
                         \/ rs' = [rs EXCEPT !.timeout_logged = TRUE]
           /\ (rs # NoResolver /\ rs' # NoResolver /\ pc # "r_wait")
               => /\ rs'.nip65_relays = rs.nip65_relays
                  /\ rs'.received_nip65_event = rs.received_nip65_event
           /\ (task = "login" /\ pc = "l_wait" /\ loc' # loc)
               => /\ pc' = "l_unsub"
                  /\ ~loc.received_nip02 /\ loc'.received_nip02
           /\ (task = "login" /\ task' = "login" /\ pc # "l_wait")
               => /\ loc'.followed_pubkeys = loc.followed_pubkeys
                  /\ loc'.received_nip02 = loc.received_nip02 ]_vars

\* A login that took its relays from the identity's own relay-list event and
\* its (empty) follow set from the identity's own contact list, where an
\* event of a foreign author naming a follow was on offer.
C28_Witness ==
    /\ task = "login" /\ pc = "l_unsub"
    /\ loc.received_nip02 /\ loc.followed_pubkeys = {}
    /\ Unwrap(loc.log_message).nip65_relays # << >>


\* C29: in every state is_logged_in is true exactly when my_keys and
\* nostr_client are both present, so the unwraps of the publish, refetch
\* and reconnect handlers, which run only in the logged-in view, find values;
\* and both are present or both absent.
C29_LoggedInIffKeysAndClient ==
    /\ is_logged_in <=> (IsSome(my_keys) /\ IsSome(nostr_client))
    /\ IsSome(my_keys) <=> IsSome(nostr_client)
    /\ SessionViewEnabled => (my_keys # None /\ nostr_client # None)

\* A session logged in by a login after an earlier session was logged out,
\* its shutdown still pending.
C29_Witness ==
    /\ is_logged_in /\ task = "none"
    /\ IsSome(my_keys) /\ IsSome(nostr_client)
    /\ Unwrap(nostr_client).relays # {}
    /\ \E slot \in ShutdownSlots : IsSome(shutdown_tasks[slot])


\* C30 as claimed: whenever the session is logged in, its client has at
\* least one relay.
C30_LoggedInHasRelays ==
    is_logged_in => (IsSome(nostr_client) /\ Unwrap(nostr_client).relays # {})


\* C31 as claimed: the step that logs the session out leaves keys, client,
\* follow set, follow-set display, timeline, relay-set display and the
\* passphrase and secret-key inputs as they are in the initial state.
C31_LogoutRestoresInitialState ==
    [][ (is_logged_in /\ ~is_logged_in')
          => /\ my_keys' = None /\ nostr_client' = None
             /\ followed_pubkeys' = {}
             /\ followed_pubkeys_display' = Text("")
             /\ status_timeline_display' = Text("")
             /\ connected_relays_display' = Text("")
             /\ passphrase_input' = "" /\ confirm_passphrase_input' = ""
             /\ secret_key_input' = "" ]_vars


\* C32 as claimed: every status a timeline fetch has collected, and every
\* entry of the timeline shown in a logged-in session, has an author in the
\* follow set the fetch was made for.
C32_TimelineAuthorsAreFollowed ==
    /\ task \in { "login", "refetch" }
           => \A i \in 1..Len(loc.collected_statuses) :
                  loc.collected_statuses[i][1] \in loc.followed_pubkeys
    /\ (is_logged_in /\ "entries" \in DOMAIN status_timeline_display)
           => \A i \in 1..Len(status_timeline_display.entries) :
                  status_timeline_display.entries[i][1] \in followed_pubkeys


\* C33: no timeline subscription is made for an empty follow set: the
\* timeline collector runs only with a follow set that is not empty; a login
\* whose contact list names nobody goes from the follow-list stage to its
\* commit with the placeholder, opening no subscription, and is committed;
\* a refetch with an empty follow set ends in its first step, with the
\* placeholder, is_loading reset, the session and its client as they were.
C33_NoSubscriptionForEmptyFollowSet ==
    /\ []((task \in { "login", "refetch" }
               /\ pc \in { "tl_subscribe", "tl_select", "tl_wait", "tl_unsub" })
            => loc.followed_pubkeys # {})
    /\ []((task = "login" /\ pc = "l_finish" /\ LoginSucceeded /\ followed_pubkeys = {})
            => /\ is_logged_in
               /\ status_timeline_display = Text("No timeline available."))
    /\ [][ /\ (task = "login" /\ pc = "l_unsub" /\ pc' # pc
                   /\ loc.received_nip02 /\ loc.followed_pubkeys = {})
               => /\ pc' = "l_commit"
                  /\ loc'.final_timeline_display = Text("No timeline available.")
                  /\ Unwrap(loc'.client).subs = {}
           /\ (task = "refetch" /\ pc = "rf_start" /\ loc.followed_pubkeys = {}
                   /\ pc' # pc)
               => /\ task' = "none" /\ ~is_loading'
                  /\ status_timeline_display' =
                         Text("No timeline available without followed users.")
                  /\ is_logged_in' /\ nostr_client' = nostr_client
                  /\ my_keys' = my_keys
           /\ (task = "login" /\ task' = task /\ IsSome(loc.client) /\ IsSome(loc'.client)
                   /\ ~(Unwrap(loc'.client).subs \subseteq Unwrap(loc.client).subs))
               => \/ pc = "l_subscribe"
                  \/ pc = "tl_subscribe" /\ loc.followed_pubkeys # {}
           /\ (task = "refetch" /\ task' = task
                   /\ ~(Unwrap(nostr_client').subs \subseteq Unwrap(nostr_client).subs))
               => pc = "tl_subscribe" /\ loc.followed_pubkeys # {} ]_vars

\* A session logged in with a contact list that names nobody, after a refetch
\* that ended on its guard.
C33_Witness ==
    /\ is_logged_in /\ task = "none"
    /\ followed_pubkeys = {}
    /\ followed_pubkeys_display = [pubkeys |-> {}]
    /\ status_timeline_display = Text("No timeline available without followed users.")


\* C34: a registration whose passphrase and confirmation differ, or whose
\* secret-key text does not parse, writes nothing to config.json, and no
\* step of a registration that failed opens the session or sets keys or
\* client; the session is opened by a registration only in its commit,
\* after the closure returned Ok, with config.json holding the record from
\* which the passphrase gives back the registered keys.
C34_FailedRegistrationWritesNothing ==
    /\ []((task = "register" /\ pc = "rg_commit" /\ ~Keys_parse(loc.secret_key_input).ok)
            => (~Unwrap(loc.result).ok /\ config_file = None))
    /\ [][ /\ (task = "register" /\ pc = "rg_run"
                   /\ \/ loc.passphrase # loc.confirm_passphrase
                      \/ ~Keys_parse(loc.secret_key_input).ok)
               => /\ config_file' = config_file
                  /\ ~is_logged_in' /\ my_keys' = None /\ nostr_client' = None
           /\ (task = "register" /\ pc = "rg_commit" /\ ~Unwrap(loc.result).ok)
               => /\ config_file' = config_file
                  /\ ~is_logged_in' /\ my_keys' = None /\ nostr_client' = None
           /\ (task = "register" /\ ~is_logged_in /\ is_logged_in')
               => /\ pc = "rg_commit" /\ Unwrap(loc.result).ok
                  /\ loc.passphrase = loc.confirm_passphrase
                  /\ config_file # None
                  /\ load_keys(config_file, loc.passphrase) = Ok(Unwrap(my_keys'))
                  /\ config_file' = config_file ]_vars

\* A registration with matching passphrases and an invalid secret-key text,
\* about to commit its failure.
C34_Witness ==
    /\ task = "register" /\ pc = "rg_commit"
    /\ loc.passphrase = loc.confirm_passphrase
    /\ ~Keys_parse(loc.secret_key_input).ok
    /\ ~Unwrap(loc.result).ok
    /\ config_file = None /\ ~is_logged_in


\* C35 as claimed: a lookup that has ended without an accepted event was
\* delivered no matching event between its subscribe call and its deadline,
\* the window before its receiver existed included.
C35_NoMatchingEventLost ==
    /\ (task \in { "login", "reconnect" }
           /\ pc \in { "r_unsub", "r_shutdown", "r_commit", "r_return" } /\ rs.lost)
           => rs.received_nip65_event
    /\ (task = "login" /\ pc \in { "l_unsub", "l_cleanup", "l_shutdown", "l_finish" }
           /\ loc.lost)
           => loc.received_nip02

=============================================================================
